---- MODULE Spec2Model ----
(***************************************************************************)
(* A model of gonum/plot.  The LaTeX support: the TeX-like box model       *)
(* (internal/latex/tex/tex.go: the nodes, their Shrink/Grow size levels,   *)
(* the packing routines hpack and vpack, the constructors of the rules),   *)
(* the lookup of a symbol's code point (unicodeIndex), the syntax trees    *)
(* (internal/latex/ast) and the scanner and parser of                      *)
(* internal/latex/parser.  The plots: the bins of a histogram (plotter),   *)
(* the range of an axis (plot), the context stack of the EPS canvas        *)
(* (vgeps) and the Draw calls on an HTML text handler (text).              *)
(*                                                                         *)
(* Numbers.  A float64 dimension that Shrink/Grow scale is kept as a pair  *)
(* [v, k]: the value v * SHRINK_FACTOR^k, where k counts the net number of *)
(* applied 0.7 factors (a multiplication by GROW_FACTOR = 1/0.7 takes one  *)
(* off).  Inf stands for math.Inf(+1).  The packing routines read the      *)
(* value of a dimension with Val.                                          *)
(***************************************************************************)
EXTENDS Integers, Sequences, FiniteSets, TLC

VARIABLES
    node,       \* the node the program holds (a leaf node or a list)
    elements,   \* the caller's slice handed to the last list constructor
    panic,      \* "none", or the message of the panic that ended the program
    call,       \* the last operation called, with its arguments
    prev,       \* the node as it was before the last call
    before,     \* the node as it was before the last Shrink call
    since,      \* calls since that Shrink: "S" (none), "SG" (one Grow), "-"
    size0,      \* the size level of the node when the program got it
    nShrink,    \* Shrink calls on node that returned
    nGrow,      \* Grow calls on node that returned
    run,        \* consecutive Shrink calls, up to now, that scaled the dimensions
    sym,        \* the symbol being resolved by unicodeIndex, and the outcome
    ast,        \* the syntax tree built so far (package ast)
    lex,        \* the scanner: its source, its offset and the tokens it returned
    par,        \* the parser: its tokens, its open delimiters and its outcome
    hist,       \* the histogram being built by NewHistogram, and the outcome
    axis,       \* the range of an Axis, and the sanitizeRange calls on it
    eps,        \* the EPS canvas: its context stack and its output, and the calls made
    html        \* the HTMLHandler: its mutex and render state, and the Draw calls on it

vars == <<node, elements, panic, call, prev, before, since, size0, nShrink, nGrow, run,
          sym, ast, lex, par, hist, axis, eps, html>>

\* The variables of the box model (package tex), and the others.
texVars == <<node, elements, panic, call, prev, before, since, size0, nShrink, nGrow, run>>

nonTexVars == <<sym, ast, lex, par, hist, axis, eps, html>>

nonSymVars == <<texVars, ast, lex, par, hist, axis, eps, html>>

nonAstVars == <<texVars, sym, lex, par, hist, axis, eps, html>>

nonLexVars == <<texVars, sym, ast, par, hist, axis, eps, html>>

nonParVars == <<texVars, sym, ast, lex, hist, axis, eps, html>>

nonHistVars == <<texVars, sym, ast, lex, par, axis, eps, html>>

nonAxisVars == <<texVars, sym, ast, lex, par, hist, eps, html>>

nonEpsVars == <<texVars, sym, ast, lex, par, hist, axis, html>>

nonHtmlVars == <<texVars, sym, ast, lex, par, hist, axis, eps>>

----------------------------------------------------------------------------
(* Program constants.                                                      *)

NUM_SIZE_LEVELS == 6

\* math.Inf(+1): larger than every finite dimension of the model.
Inf == 1000000

(* Bounds of the model.                                                    *)

\* Shrink and Grow calls on a node the program was given.
MaxOps == 9

\* Shrink and Grow calls on a list the program built from elements, and
\* before a call of hpack or vpack.
MaxResize == 2

\* Elements handed to a list constructor.
MaxLen == 2

\* Bytes of a symbol handed to unicodeIndex.
MaxSym == 4

\* The largest source offset of a syntax node, and the nesting of the tree.
MaxPos == 3

MaxDepth == 2

\* Bytes of a source text handed to the scanner.
MaxSrc == 4

\* The points of a data set, their greatest x value, and the greatest
\* number of bins asked for.
MaxPts == 2

MaxX == 2

MaxBins == 2

\* The greatest magnitude of the small bounds of a range, and the
\* sanitizeRange calls on one axis.
MaxRange == 2

MaxCalls == 2

\* The calls on one canvas.
MaxCanvasOps == 5

\* The goroutines that call Draw on one handler.
MaxGo == 2

----------------------------------------------------------------------------
(* Dimensions.                                                             *)

\* A float64 literal x.
D(x) == [v |-> x, k |-> 0]

Zero == D(0)

\* d *= SHRINK_FACTOR
MulShrink(d) == [d EXCEPT !.k = @ + 1]

\* d *= GROW_FACTOR
MulGrow(d) == [d EXCEPT !.k = @ - 1]

IsInf(x) == x >= Inf \/ x <= -Inf

RECURSIVE Pow(_, _)
Pow(b, n) == IF n = 0 THEN 1 ELSE b * Pow(b, n - 1)

\* The value of a dimension: v * 0.7^k, in fixed point (exact when v is a
\* multiple of 10^k, or of 7^-k for a negative k).
Val(d) ==
    IF IsInf(d.v) \/ d.k = 0 THEN d.v
    ELSE IF d.k > 0 THEN (d.v * Pow(7, d.k)) \div Pow(10, d.k)
    ELSE (d.v * Pow(10, -d.k)) \div Pow(7, -d.k)

Max(a, b) == IF a >= b THEN a ELSE b

\* float64 addition, with +Inf absorbing.
Add(a, b) == IF IsInf(a) THEN a ELSE IF IsInf(b) THEN b ELSE a + b

----------------------------------------------------------------------------
(* Nodes.  Every node is a record with the same fields; a kind uses the    *)
(* fields its Go struct has and leaves the others at their zero value.     *)
(* The Box embedded in a List or a Rule, and the Char embedded in an       *)
(* Accent, are flattened into the node's own size/width/height/depth.      *)

ZeroNode ==
    [kind |-> "Box", size |-> 0,
     width |-> Zero, height |-> Zero, depth |-> Zero,
     font |-> Zero,
     shift |-> Zero, children |-> <<>>,
     set |-> Zero, sign |-> 0, order |-> 0, ratio |-> 0,
     stretch |-> 0, stretchOrder |-> 0, shrink |-> 0, shrinkOrder |-> 0]

Box(w, h, d) ==
    [ZeroNode EXCEPT !.kind = "Box", !.width = D(w), !.height = D(h), !.depth = D(d)]

VBox(h, d) ==
    [ZeroNode EXCEPT !.kind = "VBox", !.height = D(h), !.depth = D(d)]

HBox(w) ==
    [ZeroNode EXCEPT !.kind = "HBox", !.width = D(w)]

Char(w, h, d, f) ==
    [ZeroNode EXCEPT !.kind = "Char", !.width = D(w), !.height = D(h), !.depth = D(d),
                     !.font = D(f)]

Accent(c) == [c EXCEPT !.kind = "Accent"]

\* &Rule{box: Box{...}}, and the same inside an HRule or a VRule.
Rule(kind, w, h, d) ==
    [ZeroNode EXCEPT !.kind = kind, !.width = D(w), !.height = D(h), !.depth = D(d)]

newGlue(w, st, sto, sh, sho) ==
    [ZeroNode EXCEPT !.kind = "Glue", !.size = 0, !.width = D(w),
                     !.stretch = st, !.stretchOrder = sto,
                     !.shrink = sh, !.shrinkOrder = sho]

NewGlue(typ) ==
    CASE typ = "fil"       -> newGlue(0, 1, 1, 0, 0)
      [] typ = "fill"      -> newGlue(0, 1, 2, 0, 0)
      [] typ = "filll"     -> newGlue(0, 1, 3, 0, 0)
      [] typ = "neg_fil"   -> newGlue(0, 0, 0, 1, 1)
      [] typ = "neg_fill"  -> newGlue(0, 0, 0, 1, 2)
      [] typ = "neg_filll" -> newGlue(0, 0, 0, 1, 3)
      [] typ = "empty"     -> [ZeroNode EXCEPT !.kind = "Glue"]
      [] typ = "ss"        -> newGlue(0, 1, 1, -1, 1)

NewKern(w) == [ZeroNode EXCEPT !.kind = "Kern", !.width = D(w)]

RECURSIVE Reversed(_)
Reversed(cs) == IF cs = <<>> THEN <<>> ELSE Append(Reversed(Tail(cs)), Head(cs))

\* A list that takes its elements in the opposite order.
ListOfReversed(elems) == [ZeroNode EXCEPT !.kind = "List", !.children = Reversed(elems)]

ListOf(elems) == [ZeroNode EXCEPT !.kind = "List", !.children = elems]

ListKinds == {"List", "HList", "VList"}
RuleKinds == {"Rule", "HRule", "VRule"}

\* The result of a call on a node: the node as the call left it, and the
\* panic that ended the call ("none" when it returned).
R(n, p) == [n |-> n, p |-> p]

Returned(r) == r.p = "none"

----------------------------------------------------------------------------
(* Shrink and Grow.                                                        *)

BoxShrink(box) ==
    LET b == [box EXCEPT !.size = @ - 1] IN
    IF b.size >= NUM_SIZE_LEVELS THEN b
    ELSE [b EXCEPT !.width = MulShrink(@), !.height = MulShrink(@),
                   !.depth = MulShrink(@)]

\* A Grow that stops scaling above NUM_SIZE_LEVELS.
BoxGrowCapped(box) ==
    LET b == [box EXCEPT !.size = @ + 1] IN
    IF b.size > NUM_SIZE_LEVELS THEN b
    ELSE [b EXCEPT !.width = MulGrow(@), !.height = MulGrow(@), !.depth = MulGrow(@)]

BoxGrow(box) ==
    [box EXCEPT !.size = @ + 1, !.width = MulGrow(@), !.height = MulGrow(@),
                !.depth = MulGrow(@)]

VBoxShrink(box) ==
    LET b == [box EXCEPT !.size = @ - 1] IN
    IF b.size >= NUM_SIZE_LEVELS THEN b
    ELSE [b EXCEPT !.height = MulShrink(@), !.depth = MulShrink(@)]

VBoxGrow(box) ==
    [box EXCEPT !.size = @ + 1, !.height = MulGrow(@), !.depth = MulGrow(@)]

HBoxShrink(box) ==
    LET b == [box EXCEPT !.size = @ - 1] IN
    IF b.size >= NUM_SIZE_LEVELS THEN b
    ELSE [b EXCEPT !.width = MulShrink(@)]

HBoxGrow(box) ==
    [box EXCEPT !.size = @ + 1, !.width = MulGrow(@)]

CharShrink(box) ==
    LET b == [box EXCEPT !.size = @ - 1] IN
    IF b.size >= NUM_SIZE_LEVELS THEN b
    ELSE [b EXCEPT !.font = MulShrink(@), !.width = MulShrink(@),
                   !.height = MulShrink(@), !.depth = MulShrink(@)]

CharGrow(box) ==
    [box EXCEPT !.size = @ + 1, !.font = MulGrow(@), !.width = MulGrow(@),
                !.height = MulGrow(@), !.depth = MulGrow(@)]

\* Accent.updateMetrics panics.
updateMetrics(box) == R(box, "not implemented")

AccentShrink(box) == updateMetrics(CharShrink(box))

AccentGrow(box) == updateMetrics(CharGrow(box))

GlueShrink(g) ==
    LET b == [g EXCEPT !.size = @ - 1] IN
    IF b.size >= NUM_SIZE_LEVELS THEN b
    ELSE [b EXCEPT !.width = MulShrink(@)]

GlueGrow(g) ==
    [g EXCEPT !.size = @ + 1, !.width = MulGrow(@)]

KernShrink(k) ==
    LET b == [k EXCEPT !.size = @ - 1] IN
    IF b.size >= NUM_SIZE_LEVELS THEN b
    ELSE [b EXCEPT !.width = MulShrink(@)]

KernGrow(k) ==
    [k EXCEPT !.size = @ + 1, !.width = MulGrow(@)]

\* A list that scales its shift and glue set on every Shrink.
ListShrinkOwnAlways(lst) ==
    [BoxShrink(lst) EXCEPT !.shift = MulShrink(@), !.set = MulShrink(@)]

\* The list's own part of List.Shrink, after the loop over the children.
ListShrinkOwn(lst) ==
    LET b == BoxShrink(lst) IN
    IF b.size < NUM_SIZE_LEVELS
    THEN [b EXCEPT !.shift = MulShrink(@), !.set = MulShrink(@)]
    ELSE b

\* The list's own part of List.Grow, after the loop over the children.
ListGrowOwn(lst) ==
    LET b == BoxGrow(lst) IN
    [b EXCEPT !.shift = MulGrow(@), !.set = MulGrow(@)]

RECURSIVE Shrink(_), Grow(_), ShrinkEach(_), GrowEach(_)

\* for _, node := range lst.children { node.Shrink() }: a panic of one
\* child leaves the children after it untouched.
ShrinkEach(cs) ==
    IF cs = <<>> THEN [cs |-> <<>>, p |-> "none"]
    ELSE LET h == Shrink(Head(cs)) IN
         IF ~Returned(h) THEN [cs |-> <<h.n>> \o Tail(cs), p |-> h.p]
         ELSE LET t == ShrinkEach(Tail(cs)) IN
              [cs |-> <<h.n>> \o t.cs, p |-> t.p]

GrowEach(cs) ==
    IF cs = <<>> THEN [cs |-> <<>>, p |-> "none"]
    ELSE LET h == Grow(Head(cs)) IN
         IF ~Returned(h) THEN [cs |-> <<h.n>> \o Tail(cs), p |-> h.p]
         ELSE LET t == GrowEach(Tail(cs)) IN
              [cs |-> <<h.n>> \o t.cs, p |-> t.p]

ListShrink(lst) ==
    LET each == ShrinkEach(lst.children)
        l    == [lst EXCEPT !.children = each.cs]
    IN  IF each.p # "none" THEN R(l, each.p) ELSE R(ListShrinkOwn(l), "none")

ListGrow(lst) ==
    LET each == GrowEach(lst.children)
        l    == [lst EXCEPT !.children = each.cs]
    IN  IF each.p # "none" THEN R(l, each.p) ELSE R(ListGrowOwn(l), "none")

\* node.Shrink(), dispatched on the node's dynamic type.
Shrink(n) ==
    CASE n.kind = "Box"       -> R(BoxShrink(n), "none")
      [] n.kind = "VBox"      -> R(VBoxShrink(n), "none")
      [] n.kind = "HBox"      -> R(HBoxShrink(n), "none")
      [] n.kind = "Char"      -> R(CharShrink(n), "none")
      [] n.kind = "Accent"    -> AccentShrink(n)
      [] n.kind \in ListKinds -> ListShrink(n)
      [] n.kind \in RuleKinds -> R(BoxShrink(n), "none")
      [] n.kind = "Glue"      -> R(GlueShrink(n), "none")
      [] n.kind = "Kern"      -> R(KernShrink(n), "none")

\* node.Grow(), dispatched on the node's dynamic type.
Grow(n) ==
    CASE n.kind = "Box"       -> R(BoxGrow(n), "none")
      [] n.kind = "VBox"      -> R(VBoxGrow(n), "none")
      [] n.kind = "HBox"      -> R(HBoxGrow(n), "none")
      [] n.kind = "Char"      -> R(CharGrow(n), "none")
      [] n.kind = "Accent"    -> AccentGrow(n)
      [] n.kind \in ListKinds -> ListGrow(n)
      [] n.kind \in RuleKinds -> R(BoxGrow(n), "none")
      [] n.kind = "Glue"      -> R(GlueGrow(n), "none")
      [] n.kind = "Kern"      -> R(KernGrow(n), "none")

----------------------------------------------------------------------------
(* Kerning.                                                                *)

\* elem.Kerning(next): [d |-> the distance, p |-> the panic].
Kerning(elem, next) ==
    IF elem.kind \in {"Char", "Accent"}
    THEN [d |-> 0, p |-> "not implemented"]
    ELSE [d |-> 0, p |-> "none"]

RECURSIVE kernFrom(_, _, _)
\* The loop of HList.kern from index i on, children being the list built
\* so far: [cs |-> the new children, p |-> the panic].
kernFrom(old, i, children) ==
    IF i > Len(old) THEN [cs |-> children, p |-> "none"]
    ELSE LET elem == old[i]
             kg   == IF i < Len(old) THEN Kerning(elem, old[i + 1])
                     ELSE [d |-> 0, p |-> "none"]
         IN  IF kg.p # "none" THEN [cs |-> old, p |-> kg.p]
             ELSE kernFrom(old, i + 1,
                           IF kg.d # 0
                           THEN children \o <<elem, NewKern(kg.d)>>
                           ELSE Append(children, elem))

\* HList.kern
kern(lst) ==
    IF Len(lst.children) = 0 THEN R(lst, "none")
    ELSE LET k == kernFrom(lst.children, 1, <<>>) IN
         R([lst EXCEPT !.children = k.cs], k.p)

----------------------------------------------------------------------------
(* Packing.  The accumulators of hpack and vpack: the running width,       *)
(* height and depth and the stretch and shrink totals per glue order.      *)

Orders == 0..3

NoTotals == [o \in Orders |-> 0]

Acc0 == [w |-> 0, h |-> 0, d |-> 0, stretch |-> NoTotals, shrink |-> NoTotals]

BoxHpackDims(box, a) ==
    LET a1 == [a EXCEPT !.w = Add(@, Val(box.width))] IN
    IF IsInf(Val(box.height)) \/ IsInf(Val(box.depth)) THEN a1
    ELSE [a1 EXCEPT !.h = Max(@, Val(box.height)), !.d = Max(@, Val(box.depth))]

BoxVpackDims(box, a) ==
    LET a1 == [a EXCEPT !.h = Add(Add(@, a.d), Val(box.height)),
                        !.d = Val(box.depth)] IN
    IF IsInf(Val(box.width)) THEN a1
    ELSE [a1 EXCEPT !.w = Max(@, Val(box.width))]

VBoxHpackDims(box, a) ==
    IF IsInf(Val(box.height)) \/ IsInf(Val(box.depth)) THEN a
    ELSE [a EXCEPT !.h = Max(@, Val(box.height)), !.d = Max(@, Val(box.depth))]

VBoxVpackDims(box, a) ==
    [a EXCEPT !.h = Add(Add(@, a.d), Val(box.height)),
              !.d = Val(box.depth),
              !.w = Max(@, 0)]

HBoxHpackDims(box, a) == [a EXCEPT !.w = Add(@, Val(box.width))]

HBoxVpackDims(box, a) ==
    LET a1 == [a EXCEPT !.h = Add(@, a.d), !.d = 0] IN
    IF IsInf(Val(box.width)) THEN a1
    ELSE [a1 EXCEPT !.w = Max(@, Val(box.width))]

CharHpackDims(c, a) ==
    [a EXCEPT !.w = Add(@, Val(c.width)),
              !.h = Max(@, Val(c.height)),
              !.d = Max(@, Val(c.depth))]

\* A nested list counted without its shift.
ListHpackDimsNoShift(lst, a) ==
    LET a1 == [a EXCEPT !.w = Add(@, Val(lst.width))] IN
    IF IsInf(Val(lst.height)) \/ IsInf(Val(lst.depth)) THEN a1
    ELSE [a1 EXCEPT !.h = Max(@, Val(lst.height)), !.d = Max(@, Val(lst.depth))]

ListHpackDims(lst, a) ==
    LET a1 == [a EXCEPT !.w = Add(@, Val(lst.width))] IN
    IF IsInf(Val(lst.height)) \/ IsInf(Val(lst.depth)) THEN a1
    ELSE [a1 EXCEPT !.h = Max(@, Val(lst.height) - Val(lst.shift)),
                    !.d = Max(@, Val(lst.depth) + Val(lst.shift))]

ListVpackDims(lst, a) ==
    LET a1 == [a EXCEPT !.h = Add(Add(@, a.d), Val(lst.height)),
                        !.d = Val(lst.depth)] IN
    IF IsInf(Val(lst.width)) THEN a1
    ELSE [a1 EXCEPT !.w = Max(@, Val(lst.width))]

GlueHpackDims(g, a) ==
    [a EXCEPT !.w = Add(@, Val(g.width)),
              !.stretch[g.stretchOrder] = @ + g.stretch,
              !.shrink[g.shrinkOrder] = @ + g.shrink]

\* A Glue that adds its width and leaves the carried depth alone.
GlueVpackDimsKeepDepth(g, a) ==
    [a EXCEPT !.h = Add(@, Val(g.width)),
              !.stretch[g.stretchOrder] = @ + g.stretch,
              !.shrink[g.shrinkOrder] = @ + g.shrink]

GlueVpackDims(g, a) ==
    [a EXCEPT !.h = Add(Add(@, a.d), Val(g.width)),
              !.d = 0,
              !.stretch[g.stretchOrder] = @ + g.stretch,
              !.shrink[g.shrinkOrder] = @ + g.shrink]

KernHpackDims(k, a) == [a EXCEPT !.w = Add(@, Val(k.width))]

KernVpackDims(k, a) ==
    [a EXCEPT !.h = Add(Add(@, a.d), Val(k.width)), !.d = 0]

\* The node kinds that implement hpacker and vpacker.
Packers ==
    {"Box", "VBox", "HBox", "Char", "Accent", "Glue", "Kern"} \cup ListKinds \cup RuleKinds

\* node.hpackDims(&x, &h, &d, totStretch, totShrink), dispatched on the
\* node's dynamic type.
hpackDims(n, a) ==
    CASE n.kind = "Box"                -> BoxHpackDims(n, a)
      [] n.kind = "VBox"               -> VBoxHpackDims(n, a)
      [] n.kind = "HBox"               -> HBoxHpackDims(n, a)
      [] n.kind \in {"Char", "Accent"} -> CharHpackDims(n, a)
      [] n.kind \in ListKinds          -> ListHpackDims(n, a)
      [] n.kind \in RuleKinds          -> BoxHpackDims(n, a)
      [] n.kind = "Glue"               -> GlueHpackDims(n, a)
      [] n.kind = "Kern"               -> KernHpackDims(n, a)

\* node.vpackDims(&w, &x, &d, totStretch, totShrink), dispatched on the
\* node's dynamic type: R(accumulators, panic).
vpackDims(n, a) ==
    CASE n.kind = "Box"       -> R(BoxVpackDims(n, a), "none")
      [] n.kind = "VBox"      -> R(VBoxVpackDims(n, a), "none")
      [] n.kind = "HBox"      -> R(HBoxVpackDims(n, a), "none")
      [] n.kind = "Char"      -> R(a, "Char node in VList")
      [] n.kind = "Accent"    -> R(a, "Accent node in VList")
      [] n.kind \in ListKinds -> R(ListVpackDims(n, a), "none")
      [] n.kind \in RuleKinds -> R(BoxVpackDims(n, a), "none")
      [] n.kind = "Glue"      -> R(GlueVpackDims(n, a), "none")
      [] n.kind = "Kern"      -> R(KernVpackDims(n, a), "none")

RECURSIVE hpackLoop(_, _), vpackLoop(_, _)

\* The loop of hpack over the children: a child that is no hpacker panics.
hpackLoop(cs, a) ==
    IF cs = <<>> THEN R(a, "none")
    ELSE IF Head(cs).kind \in Packers
         THEN hpackLoop(Tail(cs), hpackDims(Head(cs), a))
         ELSE R(a, "unknown node type")

\* The loop of vpack over the children: a child that is no vpacker is
\* passed over.
vpackLoop(cs, a) ==
    IF cs = <<>> THEN R(a, "none")
    ELSE IF Head(cs).kind \in Packers
         THEN LET r == vpackDims(Head(cs), a) IN
              IF Returned(r) THEN vpackLoop(Tail(cs), r.n) ELSE r
         ELSE vpackLoop(Tail(cs), a)

\* List.setGlue
setGlue(lst, x, sign, totals, errMsg) == R(lst, "FIXME")

\* A glue setting that takes an excess of 0 for an overfull box.
packGlueNoZero(lst, x, a) ==
    IF x >= 0 THEN setGlue(lst, x, 1, a.stretch, "overfull")
    ELSE setGlue(lst, x, -1, a.shrink, "underfull")

\* The glue setting at the end of hpack and vpack, for the excess x.
packGlue(lst, x, a) ==
    IF x = 0 THEN R([lst EXCEPT !.sign = 0, !.order = 0, !.ratio = 0], "none")
    ELSE IF x > 0 THEN setGlue(lst, x, 1, a.stretch, "overfull")
    ELSE setGlue(lst, x, -1, a.shrink, "underfull")

\* HList.hpack
hpack(lst, width, additional) ==
    LET loop == hpackLoop(lst.children, Acc0) IN
    IF ~Returned(loop) THEN R(lst, loop.p)
    ELSE LET a  == loop.n
             w  == IF additional THEN Add(width, a.w) ELSE width
             l1 == [lst EXCEPT !.height = D(a.h), !.depth = D(a.d), !.width = D(w)]
         IN  packGlue(l1, w - a.w, a)

\* A vpack that never limits the depth of the list.
vpackNoClamp(lst, height, additional, l) ==
    LET loop == vpackLoop(lst.children, Acc0) IN
    IF ~Returned(loop) THEN R(lst, loop.p)
    ELSE LET a  == loop.n
             h  == IF additional THEN Add(height, a.h) ELSE height
             l1 == [lst EXCEPT !.width = D(a.w), !.depth = D(a.d), !.height = D(h)]
         IN  packGlue(l1, h - a.h, a)

\* VList.vpack
vpack(lst, height, additional, l) ==
    LET loop == vpackLoop(lst.children, Acc0) IN
    IF ~Returned(loop) THEN R(lst, loop.p)
    ELSE LET a  == loop.n
             x  == IF a.d > l THEN a.h + (a.d - l) ELSE a.h
             d  == IF a.d > l THEN l ELSE a.d
             h  == IF additional THEN Add(height, x) ELSE height
             l1 == [lst EXCEPT !.width = D(a.w), !.depth = D(d), !.height = D(h)]
         IN  packGlue(l1, h - x, a)

HListOf(elems, doKern) ==
    LET lst == [ListOf(elems) EXCEPT !.kind = "HList"]
        k   == IF doKern THEN kern(lst) ELSE R(lst, "none")
    IN  IF ~Returned(k) THEN k ELSE hpack(k.n, 0, TRUE)

VListOf(elems) ==
    vpack([ListOf(elems) EXCEPT !.kind = "VList"], 0, TRUE, Inf)

\* A centring that asks for kerns between the elements.
HCenteredKerned(elems) ==
    HListOf(<<NewGlue("ss")>> \o elems \o <<NewGlue("ss")>>, TRUE)

\* HCentered: the elements between two "ss" glues, without kerning.
HCentered(elems) ==
    HListOf(<<NewGlue("ss")>> \o elems \o <<NewGlue("ss")>>, FALSE)

\* VCentered
VCentered(elems) ==
    VListOf(<<NewGlue("ss")>> \o elems \o <<NewGlue("ss")>>)

----------------------------------------------------------------------------
(* Symbols (unicodeIndex).  A string is the sequence of its bytes.         *)

\* utf8.RuneError
RuneError == 65533

IsCont(b) == b >= 128 /\ b <= 191

\* utf8.DecodeRune(p): [r |-> the first rune of p, w |-> its width in bytes];
\* RuneError with width 0 for no bytes, with width 1 for an invalid encoding.
DecodeRune(p) ==
    LET n   == Len(p)
        bad == [r |-> RuneError, w |-> 1]
    IN  IF n = 0 THEN [r |-> RuneError, w |-> 0]
        ELSE IF p[1] < 128 THEN [r |-> p[1], w |-> 1]
        ELSE IF p[1] >= 194 /\ p[1] <= 223
             THEN IF n >= 2 /\ IsCont(p[2])
                  THEN [r |-> (p[1] - 192) * 64 + (p[2] - 128), w |-> 2]
                  ELSE bad
        ELSE IF p[1] >= 224 /\ p[1] <= 239
             THEN IF /\ n >= 3 /\ IsCont(p[2]) /\ IsCont(p[3])
                     /\ (p[1] = 224 => p[2] >= 160)
                     /\ (p[1] = 237 => p[2] <= 159)
                  THEN [r |-> (p[1] - 224) * 4096 + (p[2] - 128) * 64 + (p[3] - 128),
                        w |-> 3]
                  ELSE bad
        ELSE IF p[1] >= 240 /\ p[1] <= 244
             THEN IF /\ n >= 4 /\ IsCont(p[2]) /\ IsCont(p[3]) /\ IsCont(p[4])
                     /\ (p[1] = 240 => p[2] >= 144)
                     /\ (p[1] = 244 => p[2] <= 143)
                  THEN [r |-> (p[1] - 240) * 262144 + (p[2] - 128) * 4096
                                + (p[3] - 128) * 64 + (p[4] - 128),
                        w |-> 4]
                  ELSE bad
        ELSE bad

\* The byte of the backslash, of the double quote and of the minus sign.
Backslash == 92

DoubleQuote == 34

Minus == 45

RECURSIVE DropFirst(_, _)
\* strings.Replace(v, string(b), "", 1)
DropFirst(v, b) ==
    IF v = <<>> THEN <<>>
    ELSE IF Head(v) = b THEN Tail(v)
    ELSE <<Head(v)>> \o DropFirst(Tail(v), b)

\* The entries of the table whose names are made of the letters o and t.
tex2uni == (<<116>> :> 865) @@ (<<111>> :> 248) @@ (<<116, 111>> :> 8594)

\* The lower-case hexadecimal digit h, as a byte.
HexDigit(h) == IF h < 10 THEN 48 + h ELSE 87 + h

RECURSIVE QuoteFrom(_)
\* The body of strconv.Quote(v): a backslash before a double quote and a
\* backslash, \xNN for an invalid byte and for a control byte, and the
\* bytes of every other rune as they are.
QuoteFrom(v) ==
    IF v = <<>> THEN <<>>
    ELSE LET d    == DecodeRune(v)
             rest == QuoteFrom(SubSeq(v, d.w + 1, Len(v)))
         IN  IF (d.r = RuneError /\ d.w = 1) \/ d.r < 32 \/ d.r = 127
             THEN <<Backslash, 120, HexDigit(v[1] \div 16), HexDigit(v[1] % 16)>> \o rest
             ELSE IF d.r \in {DoubleQuote, Backslash}
             THEN <<Backslash, d.r>> \o rest
             ELSE SubSeq(v, 1, d.w) \o rest

\* fmt's %q of the string v
Quote(v) == <<DoubleQuote>> \o QuoteFrom(v) \o <<DoubleQuote>>

NoErr == [arg |-> <<>>, text |-> ""]

\* fmt.Errorf(text, v), text holding one %q
Errorf(text, v) == [arg |-> Quote(v), text |-> text]

\* unicodeIndex(v, math): [r |-> the rune returned, -1 for none,
\* err |-> the error of the panic]
unicodeIndex(v, math) ==
    LET r == DecodeRune(v).r IN
    IF ~math
    THEN IF r = RuneError
         THEN [r |-> -1, err |-> Errorf("tex: invalid rune %q", v)]
         ELSE [r |-> r, err |-> NoErr]
    ELSE IF v = <<Minus>> THEN [r |-> 8722, err |-> NoErr]
    ELSE IF r # RuneError THEN [r |-> r, err |-> NoErr]
    ELSE LET name == DropFirst(v, Backslash) IN
         IF name \in DOMAIN tex2uni
         THEN [r |-> tex2uni[name], err |-> NoErr]
         ELSE [r |-> -1,
               err |-> Errorf("%q is not a valid unicode character nor a known TeX symbol", v)]

----------------------------------------------------------------------------
(* Syntax trees (package ast).  A node is a record with the fields of its  *)
(* Go struct and its type; a List is the record of its slice.              *)

AstList(nodes) == [type |-> "List", list |-> nodes]

Ident(pos, name) == [type |-> "Ident", NamePos |-> pos, Name |-> name]

Macro(name, args) == [type |-> "Macro", Name |-> name, Args |-> args]

Arg(lbrace, list, rbrace) ==
    [type |-> "Arg", Lbrace |-> lbrace, List |-> list, Rbrace |-> rbrace]

OptArg(lbrack, list, rbrack) ==
    [type |-> "OptArg", Lbrack |-> lbrack, List |-> list, Rbrack |-> rbrack]

MathExpr(left, list, right) ==
    [type |-> "MathExpr", Left |-> left, List |-> list, Right |-> right]

Var(pos, name) == [type |-> "Var", VarPos |-> pos, Name |-> name]

Literal(pos, text) == [type |-> "Literal", LitPos |-> pos, Text |-> text]

Op(pos, text) == [type |-> "Op", OpPos |-> pos, Text |-> text]

Super(hatPos, n) == [type |-> "Super", HatPos |-> hatPos, Node |-> n]

\* No syntax node is built yet.
NoAst == [type |-> "none"]

RECURSIVE Pos(_), End(_)

\* A List for which no children stands at offset 0.
ListPosZero(x) == IF Len(x.list) = 0 THEN 0 ELSE Pos(x.list[1])

ListPos(x) == IF Len(x.list) = 0 THEN -1 ELSE Pos(x.list[1])

ListEnd(x) == IF Len(x.list) = 0 THEN -1 ELSE End(x.list[Len(x.list)])

IdentPos(x) == x.NamePos

IdentEnd(x) == x.NamePos + Len(x.Name)

MacroPos(x) == IdentPos(x.Name)

MacroEnd(x) ==
    IF Len(x.Args) > 0 THEN End(x.Args[Len(x.Args)]) ELSE IdentEnd(x.Name)

SuperEnd(x) == End(x.Node)

\* x.Pos(), dispatched on the dynamic type of x
Pos(x) ==
    CASE x.type = "List"     -> ListPos(x)
      [] x.type = "Macro"    -> MacroPos(x)
      [] x.type = "Arg"      -> x.Lbrace
      [] x.type = "OptArg"   -> x.Lbrack
      [] x.type = "Ident"    -> IdentPos(x)
      [] x.type = "MathExpr" -> x.Left
      [] x.type = "Var"      -> x.VarPos
      [] x.type = "Literal"  -> x.LitPos
      [] x.type = "Op"       -> x.OpPos
      [] x.type = "Super"    -> x.HatPos

\* x.End()
End(x) ==
    CASE x.type = "List"     -> ListEnd(x)
      [] x.type = "Macro"    -> MacroEnd(x)
      [] x.type = "Arg"      -> x.Rbrace
      [] x.type = "OptArg"   -> x.Rbrack
      [] x.type = "Ident"    -> IdentEnd(x)
      [] x.type = "MathExpr" -> x.Right
      [] x.type = "Var"      -> x.VarPos + Len(x.Name)
      [] x.type = "Literal"  -> x.LitPos + Len(x.Text)
      [] x.type = "Op"       -> x.OpPos + Len(x.Text)
      [] x.type = "Super"    -> SuperEnd(x)

----------------------------------------------------------------------------
(* The scanner (package parser), after section 4.1 of the specification.   *)
(* A source text is the sequence of its bytes, an offset counts from 0.    *)

Token(kind, pos, text) == [Kind |-> kind, Pos |-> pos, Text |-> text]

\* No scanner is made yet.
NoLex == [pc |-> "idle", src |-> <<>>, off |-> 0, toks |-> <<>>, calls |-> 0]

IsLetter(c) == (c >= 65 /\ c <= 90) \/ (c >= 97 /\ c <= 122)

IsDigit(c) == c >= 48 /\ c <= 57

IsSpace(c) == c \in {9, 10, 13, 32}

IsQuote(c) == c \in {34, 39}

\* The kinds of the structural tokens of one character.
Structural ==
    (36 :> "Dollar") @@ (123 :> "Lbrace") @@ (125 :> "Rbrace") @@ (91 :> "Lbrack")
    @@ (93 :> "Rbrack") @@ (61 :> "Equal") @@ (95 :> "Underscore") @@ (40 :> "Lparen")
    @@ (41 :> "Rparen") @@ (60 :> "Lt") @@ (62 :> "Gt") @@ (94 :> "Hat") @@ (47 :> "Div")
    @@ (42 :> "Mul") @@ (45 :> "Sub") @@ (43 :> "Add") @@ (33 :> "Not") @@ (58 :> "Colon")

RECURSIVE RunEnd(_, _, _)
\* The offset after the longest run of bytes of the class from offset i on;
\* the classes: "letter", "digit", "space", "line" (all but line ends).
RunEnd(src, i, class) ==
    IF i >= Len(src) THEN i
    ELSE LET c  == src[i + 1]
             in == CASE class = "letter" -> IsLetter(c)
                     [] class = "digit"  -> IsDigit(c)
                     [] class = "space"  -> IsSpace(c)
                     [] class = "line"   -> c \notin {10, 13}
         IN  IF in THEN RunEnd(src, i + 1, class) ELSE i

RECURSIVE QuoteEnd(_, _, _)
\* The offset after the quote q that closes the literal, from offset i on;
\* -1 when there is none.
QuoteEnd(src, i, q) ==
    IF i >= Len(src) THEN -1
    ELSE IF src[i + 1] = q THEN i + 1
    ELSE QuoteEnd(src, i + 1, q)

\* A number that takes the '.' whatever follows it, and the letters after.
NumberEndWithLetters(src, i) ==
    LET e == RunEnd(src, i, "digit")
        f == IF e < Len(src) /\ src[e + 1] = 46 THEN RunEnd(src, e + 1, "digit") ELSE e
    IN  RunEnd(src, f, "letter")

\* The end of the number that starts at offset i: the digits, and a '.'
\* with the digits after it unless a letter follows the '.'.
NumberEnd(src, i) ==
    LET e == RunEnd(src, i, "digit") IN
    IF e < Len(src) /\ src[e + 1] = 46 /\ ~(e + 1 < Len(src) /\ IsLetter(src[e + 2]))
    THEN RunEnd(src, e + 1, "digit")
    ELSE e

\* The token that starts at offset i < Len(src): [kind, end |-> the offset
\* after it].
scan(src, i) ==
    LET c == src[i + 1] IN
    IF c = 37 THEN [kind |-> "Comment", end |-> RunEnd(src, i, "line")]
    ELSE IF IsSpace(c) THEN [kind |-> "Space", end |-> RunEnd(src, i, "space")]
    ELSE IF c = 92
         THEN IF i + 1 < Len(src) /\ IsLetter(src[i + 2])
              THEN [kind |-> "Macro", end |-> RunEnd(src, i + 1, "letter")]
              ELSE IF i + 1 < Len(src) /\ ~IsSpace(src[i + 2])
              THEN [kind |-> "Macro", end |-> i + 2]
              ELSE [kind |-> "Backslash", end |-> i + 1]
    ELSE IF IsLetter(c) THEN [kind |-> "Word", end |-> RunEnd(src, i, "letter")]
    ELSE IF IsDigit(c) THEN [kind |-> "Number", end |-> NumberEnd(src, i)]
    ELSE IF c \in DOMAIN Structural THEN [kind |-> Structural[c], end |-> i + 1]
    ELSE IF IsQuote(c)
         THEN LET e == QuoteEnd(src, i + 1, c) IN
              IF e >= 0 THEN [kind |-> "Verbatim", end |-> e]
              ELSE [kind |-> "Invalid", end |-> Len(src)]
    ELSE [kind |-> "Other", end |-> i + 1]

\* A scanner that passes over the bytes it does not know.
ScannerNextDropsOther(sc) ==
    IF sc.off >= Len(sc.src)
    THEN [sc EXCEPT !.pc = "eof", !.calls = @ + 1]
    ELSE LET t == scan(sc.src, sc.off) IN
         IF t.kind = "Other"
         THEN [sc EXCEPT !.off = t.end, !.calls = @ + 1]
         ELSE [sc EXCEPT !.off = t.end, !.calls = @ + 1,
                         !.toks = Append(@, Token(t.kind, sc.off,
                                                  SubSeq(sc.src, sc.off + 1, t.end)))]

\* sc.Next() followed by sc.Token(): the scanner after the call; at the end
\* of the source Next returns false.
ScannerNext(sc) ==
    IF sc.off >= Len(sc.src)
    THEN [sc EXCEPT !.pc = "eof", !.calls = @ + 1]
    ELSE LET t == scan(sc.src, sc.off) IN
         [sc EXCEPT !.off = t.end, !.calls = @ + 1,
                    !.toks = Append(@, Token(t.kind, sc.off,
                                             SubSeq(sc.src, sc.off + 1, t.end)))]

\* newScanner(strings.NewReader(src))
newScanner(src) == [NoLex EXCEPT !.pc = "scanning", !.src = src]

----------------------------------------------------------------------------
(* The parser (package parser), after section 4.2 of the specification:    *)
(* the groups in braces and brackets and the arguments of the macros.      *)

RECURSIVE AllTokens(_)
\* The tokens the scanner returns until Next() returns false.
AllTokens(sc) == IF sc.pc = "eof" THEN sc.toks ELSE AllTokens(ScannerNext(sc))

NoSyntaxError == [pos |-> -1, msg |-> ""]

SyntaxError(pos, msg) == [pos |-> pos, msg |-> msg]

\* An open delimiter (or the top level), and the nodes read inside it.
Frame(open, pos) == [open |-> open, pos |-> pos, list |-> <<>>]

NoParser ==
    [pc |-> "idle", src |-> <<>>, toks |-> <<>>, i |-> 1, stack |-> <<>>,
     err |-> NoSyntaxError, root |-> NoAst]

\* The parser on the tokens of src.
newParser(src) ==
    [NoParser EXCEPT !.pc = "parsing", !.src = src,
                     !.toks = AllTokens(newScanner(src)),
                     !.stack = <<Frame("root", 0)>>]

\* The list with the node x after it: an Arg or OptArg that starts where
\* the macro before it ends is an argument of that macro.
Attach(list, x) ==
    LET n == Len(list) IN
    IF /\ x.type \in {"Arg", "OptArg"}
       /\ n > 0
       /\ list[n].type = "Macro"
       /\ Pos(x) = (IF list[n].Args = <<>> THEN End(list[n]) ELSE End(list[n]) + 1)
    THEN [list EXCEPT ![n] = Macro(list[n].Name, Append(list[n].Args, x))]
    ELSE Append(list, x)

Closes == ("Rbrace" :> "Lbrace") @@ ("Rbrack" :> "Lbrack")

Fail(p, pos, msg) == [p EXCEPT !.pc = "failed", !.err = SyntaxError(pos, msg)]

\* The frame on top of the stack takes the node x.
Push(p, x) ==
    [p EXCEPT !.i = @ + 1, !.stack[Len(p.stack)].list = Attach(@, x)]

\* A parser that takes the end of the source for the end of every group.
parseStepClosesAtEOF(p) ==
    LET depth == Len(p.stack)
        top   == p.stack[depth]
    IN  IF p.i > Len(p.toks)
        THEN [p EXCEPT !.pc = "done", !.root = AstList(p.stack[1].list)]
        ELSE LET t == p.toks[p.i] IN
             IF t.Kind \in {"Lbrace", "Lbrack"}
             THEN [p EXCEPT !.i = @ + 1, !.stack = Append(@, Frame(t.Kind, t.Pos))]
             ELSE IF t.Kind \in DOMAIN Closes
             THEN IF top.open = Closes[t.Kind]
                  THEN LET x == IF t.Kind = "Rbrace" THEN Arg(top.pos, top.list, t.Pos)
                                ELSE OptArg(top.pos, top.list, t.Pos)
                       IN  Push([p EXCEPT !.stack = SubSeq(@, 1, depth - 1)], x)
                  ELSE Fail(p, t.Pos, "unexpected closing delimiter")
             ELSE Push(p, Literal(t.Pos, t.Text))

\* One step of the parser: the next token, or the end of the tokens.
parseStep(p) ==
    LET depth == Len(p.stack)
        top   == p.stack[depth]
    IN  IF p.i > Len(p.toks)
        THEN IF depth > 1
             THEN Fail(p, top.pos, "unmatched opening delimiter")
             ELSE [p EXCEPT !.pc = "done", !.root = AstList(top.list)]
        ELSE LET t == p.toks[p.i] IN
             IF t.Kind \in {"Lbrace", "Lbrack"}
             THEN [p EXCEPT !.i = @ + 1, !.stack = Append(@, Frame(t.Kind, t.Pos))]
             ELSE IF t.Kind \in DOMAIN Closes
             THEN IF top.open = Closes[t.Kind]
                  THEN LET x == IF t.Kind = "Rbrace" THEN Arg(top.pos, top.list, t.Pos)
                                ELSE OptArg(top.pos, top.list, t.Pos)
                       IN  Push([p EXCEPT !.stack = SubSeq(@, 1, depth - 1)], x)
                  ELSE IF depth > 1
                  THEN Fail(p, top.pos, "unmatched opening delimiter")
                  ELSE Fail(p, t.Pos, "unexpected closing delimiter")
             ELSE IF t.Kind = "Macro" THEN Push(p, Macro(Ident(t.Pos, t.Text), <<>>))
             ELSE IF t.Kind = "Space" THEN [p EXCEPT !.i = @ + 1]
             ELSE IF t.Kind \in {"Word", "Number", "Verbatim"}
             THEN Push(p, Literal(t.Pos, t.Text))
             ELSE Push(p, Op(t.Pos, t.Text))

----------------------------------------------------------------------------
(* Histograms (package plotter).  A data set is the sequence of its points *)
(* [X, Y].  A bin boundary and the bin width are fractions [num, den]: the *)
(* width of n bins over [xmin, xmax] is (xmax - xmin) / n.                 *)

NoHistErr == ""

\* The nil *Histogram.
NilHistogram == [Bins |-> <<>>, Width |-> [num |-> 0, den |-> 1], nil |-> TRUE]

\* Range: the least and the greatest value of a data set that has a point.
Range(xs) ==
    [min |-> CHOOSE a \in {xs[i] : i \in DOMAIN xs} :
                 \A i \in DOMAIN xs : a <= xs[i],
     max |-> CHOOSE a \in {xs[i] : i \in DOMAIN xs} :
                 \A i \in DOMAIN xs : a >= xs[i]]

\* XValues: the x values of the points.
XValues(xys) == [i \in DOMAIN xys |-> xys[i].X]

\* int(math.Ceil(math.Sqrt(m))) of a natural number m.
CeilSqrt(m) == CHOOSE r \in 0..m : r * r >= m /\ (r = 0 \/ (r - 1) * (r - 1) < m)

\* The sum of math.Max(y, 1.0) over the first i points.
RECURSIVE Mass(_, _)
Mass(xys, i) ==
    IF i = 0 THEN 0
    ELSE Mass(xys, i - 1) + (IF xys[i].Y > 1 THEN xys[i].Y ELSE 1)

\* The number of bins binPoints makes for a request of n.
binCount(xys, n) ==
    LET r  == Range(XValues(xys))
        n1 == IF n <= 0 THEN CeilSqrt(Mass(xys, Len(xys))) ELSE n
    IN  IF n1 < 1 \/ r.max <= r.min THEN 1 ELSE n1

\* The bin of the point x: int((x - xmin) / w), the last bin for xmax.
binOf(x, r, n) ==
    IF x = r.max THEN n - 1
    ELSE ((x - r.min) * n) \div (r.max - r.min)

\* The weight of bin b (counted from 0): the y values of its points.
RECURSIVE Weight(_, _, _, _, _)
Weight(xys, i, r, n, b) ==
    IF i = 0 THEN 0
    ELSE Weight(xys, i - 1, r, n, b)
         + (IF binOf(xys[i].X, r, n) = b THEN xys[i].Y ELSE 0)

binPoints(xys, n) ==
    LET r  == Range(XValues(xys))
        m  == binCount(xys, n)
        w  == r.max - r.min
    IN  [bins |-> [i \in 1..m |->
                      [Min    |-> [num |-> r.min * m + (i - 1) * w, den |-> m],
                       Max    |-> [num |-> r.min * m + i * w, den |-> m],
                       Weight |-> Weight(xys, Len(xys), r, m, i - 1)]],
         width |-> [num |-> w, den |-> m]]

NewHistogram(xy, n) ==
    IF n <= 0
    THEN [h   |-> NilHistogram,
          err |-> "Histogram with non-positive number of bins"]
    ELSE LET b == binPoints(xy, n)
         IN  [h   |-> [Bins |-> b.bins, Width |-> b.width, nil |-> FALSE],
              err |-> NoHistErr]

\* No histogram was asked for.
NoHist == [pc |-> "idle", xy |-> <<>>, n |-> 0, h |-> NilHistogram, err |-> NoHistErr]

----------------------------------------------------------------------------
(* The range of an axis (package plot).  A float64 is an integer of small  *)
(* magnitude, +Inf or -Inf, or the greatest finite float64 and its         *)
(* negative: the values from 2^54 on are more than 2 apart, so that for    *)
(* them x - 1 and x + 1 round to x.                                        *)

\* math.MaxFloat64
MaxFloat64 == Inf - 1

\* x-- and x++ on a finite float64.
Decrement(x) == IF x >= MaxFloat64 \/ x <= -MaxFloat64 THEN x ELSE x - 1

Increment(x) == IF x >= MaxFloat64 \/ x <= -MaxFloat64 THEN x ELSE x + 1

\* makeAxis: the default range is (+Inf, -Inf).
makeAxis == [Min |-> Inf, Max |-> -Inf]

sanitizeRange(a) ==
    LET a1 == IF IsInf(a.Min) THEN [a EXCEPT !.Min = 0] ELSE a
        a2 == IF IsInf(a1.Max) THEN [a1 EXCEPT !.Max = 0] ELSE a1
        a3 == IF a2.Min > a2.Max THEN [a2 EXCEPT !.Min = a2.Max, !.Max = a2.Min] ELSE a2
    IN  IF a3.Min = a3.Max
        THEN [a3 EXCEPT !.Min = Decrement(@), !.Max = Increment(@)]
        ELSE a3

\* No axis was made.
NoAxis == [calls |-> -1, Min |-> 0, Max |-> 0, given |-> makeAxis, last |-> makeAxis]

----------------------------------------------------------------------------
(* The EPS canvas (package vgeps).  A canvas is the record of its context  *)
(* stack stk, of the lines written to buf (a line is the name of its       *)
(* PostScript operator) and of the panic that ended the last call.  A      *)
(* context is a struct value; its dashes are the elements of the slice.    *)

\* ctx{}
ZeroCtx ==
    [color |-> "nil", width |-> 0, dashes |-> <<>>, offs |-> 0, font |-> "", fsize |-> 0]

\* NewTitle: one zero context, and the header comments.
NewTitle == [stk |-> <<ZeroCtx>>, buf |-> <<"%%EndComments">>, p |-> "none"]

\* &e.stk[len(e.stk)-1]: the index of the top context, 0 for an empty stack
\* (the index expression panics).
cur(e) == Len(e.stk)

OutOfRange(e) == [e EXCEPT !.p = "index out of range"]

SetLineWidth(e, w) ==
    IF cur(e) = 0 THEN OutOfRange(e)
    ELSE IF e.stk[cur(e)].width # w
    THEN [e EXCEPT !.stk[cur(e)].width = w, !.buf = Append(@, "setlinewidth")]
    ELSE e

SetLineDash(e, dashes, o) ==
    IF cur(e) = 0 THEN OutOfRange(e)
    ELSE IF dashes # e.stk[cur(e)].dashes \/ e.stk[cur(e)].offs # o
    THEN [e EXCEPT !.stk[cur(e)].dashes = dashes, !.stk[cur(e)].offs = o,
                   !.buf = Append(@, "setdash")]
    ELSE e

\* A SetColor on a stack whose contexts are one shared context.
SetColorShared(e, c) ==
    LET c1 == IF c = "nil" THEN "Black" ELSE c IN
    IF cur(e) = 0 THEN OutOfRange(e)
    ELSE IF e.stk[cur(e)].color # c1
    THEN [e EXCEPT !.stk = [i \in DOMAIN e.stk |-> [e.stk[i] EXCEPT !.color = c1]],
                   !.buf = Append(@, "setrgbcolor")]
    ELSE e

SetColor(e, c) ==
    LET c1 == IF c = "nil" THEN "Black" ELSE c IN
    IF cur(e) = 0 THEN OutOfRange(e)
    ELSE IF e.stk[cur(e)].color # c1
    THEN [e EXCEPT !.stk[cur(e)].color = c1, !.buf = Append(@, "setrgbcolor")]
    ELSE e

FillString(e, name, size) ==
    IF cur(e) = 0 THEN OutOfRange(e)
    ELSE LET f == IF e.stk[cur(e)].font # name \/ e.stk[cur(e)].fsize # size
                  THEN [e EXCEPT !.stk[cur(e)].font = name, !.stk[cur(e)].fsize = size,
                                 !.buf = Append(@, "setfont")]
                  ELSE e
         IN  [f EXCEPT !.buf = @ \o <<"moveto", "show">>]

\* Canvas.Push
CanvasPush(e) ==
    IF cur(e) = 0 THEN OutOfRange(e)
    ELSE [e EXCEPT !.stk = Append(@, e.stk[cur(e)]), !.buf = Append(@, "gsave")]

\* Canvas.Pop: slicing an empty stack panics.
CanvasPop(e) ==
    IF cur(e) = 0 THEN [e EXCEPT !.p = "slice bounds out of range"]
    ELSE [e EXCEPT !.stk = SubSeq(@, 1, Len(@) - 1), !.buf = Append(@, "grestore")]

\* Canvas.DrawImage; encodeEPSData returns an error or nil.
DrawImage(e, err) ==
    LET pushed == CanvasPush(e)
        drawn  == [pushed EXCEPT !.buf = @ \o <<"translate", "scale", "colorimage">>]
        data   == IF err THEN drawn ELSE [drawn EXCEPT !.buf = Append(@, "~>")]
        popped == CanvasPop(data)
    IN  IF pushed.p # "none" THEN pushed
        ELSE IF err THEN [popped EXCEPT !.p = "vgeps: error encoding EPS data"]
        ELSE popped

\* No canvas was made.  With the canvas: the last call, the Push and Pop
\* calls made (those of DrawImage included), whether some Pop found no
\* context to restore, the top contexts the Push calls saw, and the one the
\* last Pop was to restore.
NoCanvas ==
    [c |-> [stk |-> <<>>, buf |-> <<>>, p |-> "none"], last |-> "none",
     pushes |-> 0, pops |-> 0, under |-> FALSE, seen |-> <<>>, restore |-> ZeroCtx,
     depth |-> 0]

----------------------------------------------------------------------------
(* The HTML text handler (package text).  A length is a whole number of    *)
(* thousandths of a point and a factor a whole number of thousandths; a    *)
(* string is the sequence of its characters; a document is the sequence of *)
(* the parsed nodes of its body.  A goroutine is a number from 1; the      *)
(* mutex holds the goroutine that locked it, or Free.                      *)

Free == 0

\* HTML(): the default handler (the fields the model reads).
HTML ==
    [Font |-> "Helvetica", BoldFont |-> "Helvetica-Bold",
     PMarginTop |-> 0, PMarginBottom |-> 833,
     H1 |-> [Scale |-> 2000, MarginTop |-> 1000, MarginBottom |-> 1000, Bold |-> TRUE],
     WrapLines |-> TRUE]

\* length * factor
Times(l, f) == (l * f) \div 1000

\* The zero value of HTMLHandler.state.
ZeroState ==
    [cnv |-> [MinX |-> 0, MaxX |-> 0], at |-> [X |-> 0, Y |-> 0],
     sty |-> [Font |-> [name |-> "", Size |-> 0]], lineHeight |-> 0, fntSize |-> 0]

\* vg.MakeFont: the font, or an error for a name that is no font.
MakeFont(name, size) ==
    IF name \in {"Helvetica", "Helvetica-Bold"}
    THEN [fnt |-> [name |-> name, Size |-> size], err |-> FALSE]
    ELSE [fnt |-> [name |-> "", Size |-> 0], err |-> TRUE]

\* Font.Width(s): every character is half the size wide.
Width(fnt, str) == Len(str) * (fnt.Size \div 2)

\* strings.TrimLeft(s, " ")
RECURSIVE TrimLeft(_)
TrimLeft(str) ==
    IF str # <<>> /\ Head(str) = " " THEN TrimLeft(Tail(str)) ELSE str

\* str[from:to], with offsets from 0
Slice(str, from, to) == SubSeq(str, from + 1, to)

\* strings.IndexFunc(str[from:], splitFunc): the first space or dash
IndexFunc(str, from) ==
    LET found == {i \in from..(Len(str) - 1) : str[i + 1] \in {" ", "-"}} IN
    IF found = {} THEN -1
    ELSE (CHOOSE i \in found : \A j \in found : i <= j) - from

\* Canvas.FillString, as the handler calls it: the font, the point, the text.
Fill(r, fnt, str) ==
    [r EXCEPT !.out = Append(@, [font |-> fnt, at |-> r.st.at, str |-> str])]

newLine(r) ==
    [r EXCEPT !.st.at = [X |-> r.st.cnv.MinX, Y |-> r.st.at.Y - r.st.lineHeight]]

\* The loop of writeLines: the line starts at lineStart and has len bytes.
RECURSIVE writeLoop(_, _, _, _, _)
writeLoop(r, str, sty, lineStart, len) ==
    LET from      == lineStart + len + 1
        found     == IF Len(str) > 1 THEN IndexFunc(str, from) ELSE -1
        nextBreak == IF found # -1 /\ str[from + found + 1] = "-" THEN found + 1 ELSE found
        lineEnd   == IF nextBreak = -1 THEN Len(str) ELSE from + nextBreak
        tooLong   == /\ HTML.WrapLines
                     /\ Width(sty.Font, Slice(str, lineStart, lineEnd))
                            > r.st.cnv.MaxX - r.st.at.X
        line      == Slice(str, lineStart, lineStart + len)
        start1    == IF tooLong THEN lineStart + len ELSE lineStart
        len1      == IF tooLong THEN 0 ELSE lineEnd - lineStart
        r1        == IF tooLong
                     THEN newLine(Fill(r, sty.Font,
                                       IF r.st.at.X = r.st.cnv.MinX THEN TrimLeft(line)
                                       ELSE line))
                     ELSE r
        rest      == Slice(str, start1, Len(str))
        out       == IF r1.st.at.X = r1.st.cnv.MinX THEN TrimLeft(rest) ELSE rest
    IN  IF nextBreak = -1
        THEN [Fill(r1, sty.Font, out) EXCEPT !.st.at.X = @ + Width(sty.Font, out)]
        ELSE writeLoop(r1, str, sty, start1, len1)

writeLines(r, text, sty) == writeLoop(r, text, sty, 0, 0)

\* text: a text node
text(r, t) == writeLines(r, t.Data, r.st.sty)

RECURSIVE draw(_, _)

paragraph(r, p) ==
    LET r1 == [r EXCEPT !.st.at = [X |-> r.st.cnv.MinX,
                                   Y |-> r.st.at.Y - Times(r.st.fntSize, HTML.PMarginTop)],
                        !.st.lineHeight = r.st.sty.Font.Size]
        r2 == draw(r1, p.Children)
    IN  IF r2.err THEN r2
        ELSE [r2 EXCEPT !.st.at =
                 [X |-> r2.st.cnv.MinX,
                  Y |-> r2.st.at.Y - Times(r2.st.fntSize, 1000 + HTML.PMarginBottom)]]

heading(r, h, hd) ==
    LET f  == r.st.sty.Font
        r1 == IF hd.Bold THEN [r EXCEPT !.st.sty.Font.name = HTML.BoldFont] ELSE r
        r2 == [r1 EXCEPT !.st.at = [X |-> r.st.cnv.MinX,
                                    Y |-> r.st.at.Y - Times(r.st.fntSize, hd.MarginTop)],
                         !.st.sty.Font.Size = Times(@, hd.Scale)]
        r3 == draw([r2 EXCEPT !.st.lineHeight = r2.st.sty.Font.Size], h.Children)
        r4 == [r3 EXCEPT !.st.at.Y = @ - Times(r3.st.sty.Font.Size, hd.MarginBottom),
                         !.st.sty.Font.Size = (@ * 1000) \div hd.Scale]
        r5 == [r4 EXCEPT !.st.at = [X |-> r4.st.cnv.MinX,
                                    Y |-> r4.st.at.Y - Times(r4.st.fntSize, hd.MarginBottom)]]
        r6 == IF r3.err THEN r3 ELSE r5
    IN  IF hd.Bold THEN [r6 EXCEPT !.st.sty.Font = f] ELSE r6

\* element: the elements of the model; any other is not implemented.
element(r, e) ==
    CASE e.Type = "p"  -> paragraph(r, e)
      [] e.Type = "h1" -> heading(r, e, HTML.H1)
      [] OTHER         -> [r EXCEPT !.err = TRUE]

\* for c := n.FirstChild; c != nil; c = c.NextSibling { hdlr.draw(c) }, and
\* draw on each node: a text or an element.
draw(r, nodes) ==
    IF nodes = <<>> \/ r.err THEN r
    ELSE LET n  == Head(nodes)
             r1 == IF n.Type = "text" THEN text(r, n) ELSE element(r, n)
         IN  draw(r1, Tail(nodes))

\* Draw, after Lock: the fields it sets from its arguments.
setState(st, a, fnt) ==
    [st EXCEPT !.cnv = a.c, !.at = a.pt,
               !.sty = [Font |-> fnt], !.fntSize = a.size]

\* hdlr.mu.Unlock()
Unlock(mu) == Free

\* The exit of Draw by a return, which runs the deferred Unlock.
exitReturn(mu) == Unlock(mu)

\* A panic that unwinds Draw without an Unlock.
exitPanicLocked(mu) == mu

\* The exit of Draw by a panic, which runs the deferred Unlock.
exitPanic(mu) == Unlock(mu)

\* No handler was made.
NoHandler ==
    [Font |-> "", mu |-> Free, state |-> ZeroState, pc |-> <<>>, args |-> <<>>,
     out |-> <<>>]

----------------------------------------------------------------------------
(* The inputs of the model.                                                *)

\* The program holds no node yet.
Nil == [ZeroNode EXCEPT !.kind = "nil"]

\* A list that sits inside another list, shifted by one unit.
Nested == [HListOf(<<Box(4, 5, 2)>>, FALSE).n EXCEPT !.shift = D(1)]

\* The nodes a caller hands to the list constructors.
Elems ==
    {Box(3, 2, 1), HBox(10), VBox(4, 2), Char(2, 3, 1, 12), NewKern(-1),
     newGlue(0, 5, 1, 0, 0), NewGlue("filll"), NewGlue("ss"), newGlue(2, 3, 0, 1, 0),
     Rule("VRule", 1, Inf, Inf), Rule("HRule", Inf, 1, 1), Nested}

RECURSIVE SeqsUpTo(_, _)
\* The sequences over S of length at most n.
SeqsUpTo(S, n) ==
    IF n = 0 THEN {<<>>}
    ELSE LET shorter == SeqsUpTo(S, n - 1) IN
         shorter \cup {Append(q, e) : q \in shorter, e \in S}

ElemSeqs == SeqsUpTo(Elems, MaxLen)

\* A node of a type of another package: it implements Node, and neither
\* hpacker nor vpacker.
Unknown ==
    [ZeroNode EXCEPT !.kind = "Unknown", !.width = D(7), !.height = D(7), !.depth = D(7)]

HasUnknown(cs) == \E i \in 1..Len(cs) : cs[i].kind = "Unknown"

\* The elements with at least one node of that type among them.
UnknownSeqs == {q \in SeqsUpTo(Elems \cup {Unknown}, MaxLen) : HasUnknown(q)}

\* "The width is never running in an HList; the height and depth are never
\* running in a VList."
NoRunningWidth(elems) == \A i \in 1..Len(elems) : ~IsInf(Val(elems[i].width))

NoRunningHeight(elems) ==
    \A i \in 1..Len(elems) :
        ~IsInf(Val(elems[i].height)) /\ ~IsInf(Val(elems[i].depth))

\* The sizes hpack and vpack are asked for.
Targets == {-5, 0, 10, 20}

\* The depth limits vpack is given.
MaxDepths == {0, 1, Inf}

\* A node that earlier calls brought to size level s.
AtSize(n, s) == [n EXCEPT !.size = s]

\* The nodes whose Shrink and Grow the program calls: one of every kind,
\* fresh and at the size level NUM_SIZE_LEVELS, and lists of them.
SizeLeaves ==
    {Box(3, 2, 1), VBox(4, 2), HBox(10), Char(2, 3, 1, 12),
     Accent(Char(2, 3, 1, 12)), newGlue(2, 3, 0, 1, 0), NewKern(-1),
     Rule("Rule", 1, 2, 3), Rule("HRule", Inf, 1, 1), Rule("VRule", 1, Inf, Inf)}

SizeLists ==
    {ListOf(<<Box(3, 2, 1), newGlue(2, 3, 0, 1, 0)>>),
     HListOf(<<Char(2, 3, 1, 12), NewKern(-1)>>, FALSE).n,
     VListOf(<<Box(3, 2, 1), VBox(4, 2)>>).n,
     HListOf(<<HBox(10), Accent(Char(2, 3, 1, 12)), HBox(10)>>, FALSE).n,
     HListOf(<<Nested, AtSize(Box(3, 2, 1), NUM_SIZE_LEVELS + 1)>>, FALSE).n}

SizeNodes ==
    SizeLeaves \cup {AtSize(n, NUM_SIZE_LEVELS) : n \in SizeLeaves} \cup SizeLists

----------------------------------------------------------------------------
(* The constructors of the rules.  A call returns the node it built and    *)
(* the panic that ended it; State is the empty struct of tex.go, the only  *)
(* implementation of its two methods.                                      *)

\* State.Backend() and State.UnderlineThickness(): the value and the panic.
StateBackend == [v |-> 0, p |-> "not implemented"]

UnderlineThickness == [v |-> 0, p |-> "not implemented"]

\* &Rule{box: Box{}, out: state.Backend()}
NewRule(w, h, d) ==
    IF StateBackend.p # "none" THEN R(Nil, StateBackend.p)
    ELSE R(Rule("Rule", 0, 0, 0), "none")

\* 0.5 * thickness, of an even thickness.
Half(thickness) == thickness \div 2

NewHRule(thickness) ==
    LET t == IF thickness < 0 THEN UnderlineThickness ELSE [v |-> thickness, p |-> "none"]
        r == NewRule(Inf, Half(t.v), Half(t.v))
    IN  IF t.p # "none" THEN R(Nil, t.p)
        ELSE IF ~Returned(r) THEN r
        ELSE R([r.n EXCEPT !.kind = "HRule"], "none")

NewVRule ==
    LET t == UnderlineThickness
        r == NewRule(t.v, Inf, Inf)
    IN  IF t.p # "none" THEN R(Nil, t.p)
        ELSE IF ~Returned(r) THEN r
        ELSE R([r.n EXCEPT !.kind = "VRule"], "none")

----------------------------------------------------------------------------
(* The program.                                                            *)

NoCall ==
    [op |-> "none", size |-> 0, additional |-> FALSE, l |-> 0, doKern |-> FALSE,
     w |-> 0, h |-> 0, d |-> 0, thickness |-> 0]

Start(n) ==
    /\ node = n
    /\ elements = <<>>
    /\ panic = "none"
    /\ call = NoCall
    /\ prev = n
    /\ before = n
    /\ since = "-"
    /\ size0 = n.size
    /\ nShrink = 0
    /\ nGrow = 0
    /\ run = 0

\* No symbol is being resolved.
\* (pc: "idle", then "given" a symbol, then "done".)
NoSym == [pc |-> "idle", v |-> <<>>, math |-> FALSE, r |-> -1, err |-> NoErr]

\* The parts of the program other than part s have not started: a run of
\* the model follows one part of the program.
IdleBut(s) ==
    /\ IF s # "tex" THEN Start(Nil) ELSE TRUE
    /\ IF s # "sym" THEN sym = NoSym ELSE TRUE
    /\ IF s # "ast" THEN ast = NoAst ELSE TRUE
    /\ IF s # "lex" THEN lex = NoLex ELSE TRUE
    /\ IF s # "par" THEN par = NoParser ELSE TRUE
    /\ IF s # "hist" THEN hist = NoHist ELSE TRUE
    /\ IF s # "axis" THEN axis = NoAxis ELSE TRUE
    /\ IF s # "eps" THEN eps = NoCanvas ELSE TRUE
    /\ IF s # "html" THEN html = NoHandler ELSE TRUE

InitSize == (\E n \in SizeNodes : Start(n)) /\ IdleBut("tex")

InitPack == Start(Nil) /\ IdleBut("tex")

\* The bytes of the symbols: the backslash, the minus sign, the letters f,
\* o and t, the two bytes of U+00E9 and a byte that is no UTF-8.
SymBytes == {Backslash, Minus, 102, 111, 116, 195, 169, 255}

SymStrings == SeqsUpTo(SymBytes, MaxSym)

InitSym ==
    /\ \E v \in SymStrings, math \in BOOLEAN :
          sym = [NoSym EXCEPT !.pc = "given", !.v = v, !.math = math]
    /\ IdleBut("sym")

\* The source offsets, and the texts of the names, literals and operators.
Offsets == 0..MaxPos

Texts == {<<120>>, <<120, 121>>}

\* The nodes without children: a macro without arguments among them.
AstLeaves ==
    {AstList(<<>>)}
    \cup {Ident(p, t) : p \in Offsets, t \in Texts}
    \cup {Var(p, t) : p \in Offsets, t \in Texts}
    \cup {Literal(p, t) : p \in Offsets, t \in Texts}
    \cup {Op(p, t) : p \in Offsets, t \in Texts}
    \cup {Macro(Ident(p, t), <<>>) : p \in Offsets, t \in Texts}

RECURSIVE AstDepth(_)
AstDepth(x) ==
    CASE x.type = "List"  -> IF x.list = <<>> THEN 0 ELSE 1 + AstDepth(x.list[1])
      [] x.type = "Macro" -> IF x.Args = <<>> THEN 0 ELSE 1 + AstDepth(x.Args[1])
      [] x.type \in {"Arg", "OptArg", "MathExpr"} ->
            IF x.List = <<>> THEN 0 ELSE 1 + AstDepth(x.List[1])
      [] x.type = "Super" -> 1 + AstDepth(x.Node)
      [] OTHER -> 0

\* Source order: the offset p is not after the start of x, and the offset
\* q is not before its end; an empty List has no place in the source.
StartsBy(p, x) == Pos(x) < 0 \/ p <= Pos(x)

EndsBy(x, q) == End(x) <= q

InitAst == ast = NoAst /\ IdleBut("ast")

\* The bytes of the source texts: a line end, '%', a quote, '.', the digit
\* 4, '?', a backslash, the letter x and '{'.
LexBytes == {10, 37, 39, 46, 52, 63, 92, 120, 123}

InitLex ==
    /\ \E src \in SeqsUpTo(LexBytes, MaxSrc) : lex = newScanner(src)
    /\ IdleBut("lex")

\* The bytes of the parsed texts: the braces, the brackets, a space, a
\* backslash and the letter x.
ParBytes == {123, 125, 91, 93, 32, 92, 120}

InitPar ==
    /\ \E src \in SeqsUpTo(ParBytes, MaxSrc) : par = newParser(src)
    /\ IdleBut("par")

\* No node yet: the program is about to construct a rule.
InitRule == Start(Nil) /\ IdleBut("tex")

\* The bounds of a range that a caller sets: any float64 but a NaN.
RangeValues == (-MaxRange..MaxRange) \cup {-Inf, -MaxFloat64, MaxFloat64, Inf}

InitAxis ==
    /\ \E min \in RangeValues, max \in RangeValues :
           axis = [NoAxis EXCEPT !.calls = 0, !.Min = min, !.Max = max,
                                 !.given = [Min |-> min, Max |-> max],
                                 !.last = [Min |-> min, Max |-> max]]
    /\ IdleBut("axis")

InitCanvas ==
    /\ eps = [NoCanvas EXCEPT !.c = NewTitle, !.last = "NewTitle"]
    /\ IdleBut("eps")

\* The parsed nodes: a text, and an element with its children.
TextNode(str) == [Type |-> "text", Data |-> str, Children |-> <<>>]

ElementNode(tag, nodes) == [Type |-> tag, Data |-> <<>>, Children |-> nodes]

\* Three words, too long for one line of the canvas, and one word.
Words == <<"a", "a", "a", "a", " ", "a", "a", "a", "a", " ", "a", "a", "a", "a">>

Word == <<"a", "a", "a", "a">>

\* The documents: a paragraph, a text outside any paragraph, a heading,
\* and an element the handler does not implement.
Docs ==
    {<<ElementNode("p", <<TextNode(Words)>>)>>,
     <<TextNode(Words)>>,
     <<ElementNode("h1", <<TextNode(Word)>>)>>,
     <<ElementNode("table", <<>>)>>}

\* The arguments of a Draw call: the canvas, the document of the text, the
\* font size of the style and the point.
DrawArgs ==
    [c : {[MinX |-> 0, MaxX |-> 60000]}, txt : Docs, size : {10000, 12000},
     pt : {[X |-> 0, Y |-> 100000]}]

InitHandler ==
    /\ \E font \in {"Helvetica", "Arial"}, args \in [1..MaxGo -> DrawArgs] :
           html = [NoHandler EXCEPT !.Font = font, !.args = args,
                                    !.pc = [g \in 1..MaxGo |-> "call"],
                                    !.out = [g \in 1..MaxGo |-> <<>>]]
    /\ IdleBut("html")

\* The data sets: frequency counts at small x values.
Points == [X : 0..MaxX, Y : {0, 1, 3}]

InitHist ==
    /\ \E xy \in SeqsUpTo(Points, MaxPts) \ {<<>>}, n \in -1..MaxBins :
           hist = [NoHist EXCEPT !.pc = "given", !.xy = xy, !.n = n]
    /\ IdleBut("hist")

Init ==
    InitSize \/ InitPack \/ InitRule \/ InitSym \/ InitAst \/ InitLex \/ InitPar
    \/ InitHist \/ InitAxis \/ InitCanvas \/ InitHandler

\* The Shrink and Grow calls the model follows on the node.
OpsBound == IF elements = <<>> THEN MaxOps ELSE MaxResize

\* Some dimension of the node was scaled between n and m.
Scaled(n, m) ==
    \/ m.width.k # n.width.k
    \/ m.height.k # n.height.k
    \/ m.depth.k # n.depth.k

\* node.Shrink()
DoShrink ==
    /\ IdleBut("tex")
    /\ panic = "none"
    /\ node.kind # "nil"
    /\ ~HasUnknown(node.children)
    /\ nShrink + nGrow < OpsBound
    /\ LET r == Shrink(node) IN
        /\ node' = r.n
        /\ panic' = r.p
        /\ nShrink' = IF Returned(r) THEN nShrink + 1 ELSE nShrink
        /\ run' = IF Scaled(node, r.n) THEN run + 1 ELSE run
    /\ call' = [NoCall EXCEPT !.op = "Shrink"]
    /\ prev' = node
    /\ before' = node
    /\ since' = "S"
    /\ UNCHANGED <<elements, size0, nGrow>>
    /\ UNCHANGED nonTexVars

\* node.Grow()
DoGrow ==
    /\ IdleBut("tex")
    /\ panic = "none"
    /\ node.kind # "nil"
    /\ ~HasUnknown(node.children)
    /\ nShrink + nGrow < OpsBound
    /\ LET r == Grow(node) IN
        /\ node' = r.n
        /\ panic' = r.p
        /\ nGrow' = IF Returned(r) THEN nGrow + 1 ELSE nGrow
    /\ call' = [NoCall EXCEPT !.op = "Grow"]
    /\ prev' = node
    /\ since' = IF since = "S" THEN "SG" ELSE "-"
    /\ run' = 0
    /\ UNCHANGED <<elements, before, size0, nShrink>>
    /\ UNCHANGED nonTexVars

\* The program gets a new node from a constructor that left r.
Construct(r, elems, c) ==
    /\ node' = r.n
    /\ panic' = r.p
    /\ elements' = elems
    /\ call' = c
    /\ prev' = node
    /\ before' = r.n
    /\ since' = "-"
    /\ size0' = r.n.size
    /\ nShrink' = 0
    /\ nGrow' = 0
    /\ run' = 0
    /\ UNCHANGED nonTexVars

\* node = HListOf(elems, doKern)
DoHListOf ==
    /\ IdleBut("tex")
    /\ panic = "none"
    /\ node.kind = "nil"
    /\ \E elems \in ElemSeqs, doKern \in BOOLEAN :
        /\ NoRunningWidth(elems)
        /\ Construct(HListOf(elems, doKern), elems,
                     [NoCall EXCEPT !.op = "HListOf", !.doKern = doKern])

\* node = VListOf(elems)
DoVListOf ==
    /\ IdleBut("tex")
    /\ panic = "none"
    /\ node.kind = "nil"
    /\ \E elems \in ElemSeqs :
        /\ NoRunningHeight(elems)
        /\ Construct(VListOf(elems), elems, [NoCall EXCEPT !.op = "VListOf"])

\* node = HCentered(elems)
DoHCentered ==
    /\ IdleBut("tex")
    /\ panic = "none"
    /\ node.kind = "nil"
    /\ \E elems \in ElemSeqs :
        /\ NoRunningWidth(elems)
        /\ Construct(HCentered(elems), elems, [NoCall EXCEPT !.op = "HCentered"])

\* node = VCentered(elems)
DoVCentered ==
    /\ IdleBut("tex")
    /\ panic = "none"
    /\ node.kind = "nil"
    /\ \E elems \in ElemSeqs :
        /\ NoRunningHeight(elems)
        /\ Construct(VCentered(elems), elems, [NoCall EXCEPT !.op = "VCentered"])

\* node = HListOf(elems, false), one of the elements being no hpacker
DoHListOfUnknown ==
    /\ IdleBut("tex")
    /\ panic = "none"
    /\ node.kind = "nil"
    /\ \E elems \in UnknownSeqs :
        /\ NoRunningWidth(elems)
        /\ Construct(HListOf(elems, FALSE), elems, [NoCall EXCEPT !.op = "HListOf"])

\* node = VListOf(elems), one of the elements being no vpacker
DoVListOfUnknown ==
    /\ IdleBut("tex")
    /\ panic = "none"
    /\ node.kind = "nil"
    /\ \E elems \in UnknownSeqs :
        /\ NoRunningHeight(elems)
        /\ Construct(VListOf(elems), elems, [NoCall EXCEPT !.op = "VListOf"])

\* r = unicodeIndex(sym.v, sym.math)
DoUnicodeIndex ==
    /\ IdleBut("sym")
    /\ sym.pc = "given"
    /\ LET res == unicodeIndex(sym.v, sym.math) IN
        sym' = [sym EXCEPT !.pc = "done", !.r = res.r, !.err = res.err]
    /\ UNCHANGED nonSymVars

\* The parser builds a node without children.
DoLeaf ==
    /\ IdleBut("ast")
    /\ ast = NoAst
    /\ \E x \in AstLeaves : ast' = x
    /\ UNCHANGED nonAstVars

\* ast.List{ast} and ast.List{ast, y}, y being the node that follows
DoList ==
    /\ IdleBut("ast")
    /\ ast # NoAst
    /\ AstDepth(ast) < MaxDepth
    /\ \/ ast' = AstList(<<ast>>)
       \/ \E y \in AstLeaves : EndsBy(ast, Pos(y)) /\ ast' = AstList(<<ast, y>>)
    /\ UNCHANGED nonAstVars

\* &ast.Macro{Name: name, Args: []ast.Node{ast}}
DoMacro ==
    /\ IdleBut("ast")
    /\ ast # NoAst
    /\ AstDepth(ast) < MaxDepth
    /\ \E p \in Offsets, t \in Texts :
          /\ StartsBy(p + Len(t), ast)
          /\ ast' = Macro(Ident(p, t), <<ast>>)
    /\ UNCHANGED nonAstVars

\* &ast.Arg{...}, &ast.OptArg{...} and &ast.MathExpr{...} around ast
DoGroup ==
    /\ IdleBut("ast")
    /\ ast # NoAst
    /\ AstDepth(ast) < MaxDepth
    /\ \E open \in Offsets, close \in Offsets :
          /\ open <= close
          /\ StartsBy(open, ast)
          /\ EndsBy(ast, close)
          /\ \/ ast' = Arg(open, <<ast>>, close)
             \/ ast' = OptArg(open, <<ast>>, close)
             \/ ast' = MathExpr(open, <<ast>>, close)
    /\ UNCHANGED nonAstVars

\* &ast.Super{HatPos: hat, Node: ast}
DoSuper ==
    /\ IdleBut("ast")
    /\ ast # NoAst
    /\ AstDepth(ast) < MaxDepth
    /\ \E hat \in Offsets : StartsBy(hat, ast) /\ ast' = Super(hat, ast)
    /\ UNCHANGED nonAstVars

\* sc.Next(), and sc.Token() when it returned true
DoNext ==
    /\ IdleBut("lex")
    /\ lex.pc = "scanning"
    /\ lex' = ScannerNext(lex)
    /\ UNCHANGED nonLexVars

\* The parser reads its next token.
DoParse ==
    /\ IdleBut("par")
    /\ par.pc = "parsing"
    /\ par' = parseStep(par)
    /\ UNCHANGED nonParVars

\* node.hpack(width, additional)
DoHpack ==
    /\ IdleBut("tex")
    /\ panic = "none"
    /\ node.kind = "HList"
    /\ nShrink + nGrow <= MaxResize
    /\ \E width \in Targets, additional \in BOOLEAN :
        /\ LET r == hpack(node, width, additional) IN
            /\ node' = r.n
            /\ panic' = r.p
        /\ call' = [NoCall EXCEPT !.op = "hpack", !.size = width,
                                  !.additional = additional]
        /\ prev' = node
        /\ UNCHANGED <<elements, before, since, size0, nShrink, nGrow, run>>
        /\ UNCHANGED nonTexVars

\* node.vpack(height, additional, l)
DoVpack ==
    /\ IdleBut("tex")
    /\ panic = "none"
    /\ node.kind = "VList"
    /\ nShrink + nGrow <= MaxResize
    /\ \E height \in Targets, additional \in BOOLEAN, l \in MaxDepths :
        /\ LET r == vpack(node, height, additional, l) IN
            /\ node' = r.n
            /\ panic' = r.p
        /\ call' = [NoCall EXCEPT !.op = "vpack", !.size = height,
                                  !.additional = additional, !.l = l]
        /\ prev' = node
        /\ UNCHANGED <<elements, before, since, size0, nShrink, nGrow, run>>
        /\ UNCHANGED nonTexVars

NextSize == DoShrink \/ DoGrow

NextPack ==
    DoHListOf \/ DoVListOf \/ DoHCentered \/ DoVCentered \/ DoHpack \/ DoVpack

NextUnknown == DoHListOfUnknown \/ DoVListOfUnknown \/ DoVpack

NextSym == DoUnicodeIndex

NextAst == DoLeaf \/ DoList \/ DoMacro \/ DoGroup \/ DoSuper

NextLex == DoNext

\* The dimensions and the thicknesses the rules are asked for.
RuleDims == {0, 1, 2, 3, Inf}

Thicknesses == {-1, 0, 2, 4}

\* The program constructs its first node: a rule.
NoNodeYet ==
    /\ IdleBut("tex")
    /\ node = Nil
    /\ elements = <<>>
    /\ call = NoCall
    /\ panic = "none"

DoNewRule ==
    /\ NoNodeYet
    /\ \E w \in RuleDims, h \in RuleDims, d \in RuleDims :
           Construct(NewRule(w, h, d), <<>>,
                     [NoCall EXCEPT !.op = "NewRule", !.w = w, !.h = h, !.d = d])

DoNewHRule ==
    /\ NoNodeYet
    /\ \E t \in Thicknesses :
           Construct(NewHRule(t), <<>>,
                     [NoCall EXCEPT !.op = "NewHRule", !.thickness = t])

DoNewVRule ==
    /\ NoNodeYet
    /\ Construct(NewVRule, <<>>, [NoCall EXCEPT !.op = "NewVRule"])

\* NewHistogram(xy, n).
DoNewHistogram ==
    /\ IdleBut("hist")
    /\ hist.pc = "given"
    /\ LET out == NewHistogram(hist.xy, hist.n)
       IN  hist' = [hist EXCEPT !.pc = "done", !.h = out.h, !.err = out.err]
    /\ UNCHANGED nonHistVars

NextPar == DoParse

\* a.sanitizeRange()
DoSanitizeRange ==
    /\ IdleBut("axis")
    /\ axis.calls >= 0
    /\ axis.calls < MaxCalls
    /\ LET a == sanitizeRange([Min |-> axis.Min, Max |-> axis.Max]) IN
       axis' = [axis EXCEPT !.calls = @ + 1, !.Min = a.Min, !.Max = a.Max,
                            !.last = [Min |-> axis.Min, Max |-> axis.Max]]
    /\ UNCHANGED nonAxisVars

\* The canvas takes another call.
CanvasReady ==
    /\ IdleBut("eps")
    /\ eps.last # "none"
    /\ eps.c.p = "none"
    /\ Len(eps.c.buf) < MaxCanvasOps + 1

\* A call that is neither Push nor Pop left the canvas as c.
Called(op, c) ==
    /\ eps' = [eps EXCEPT !.c = c, !.last = op, !.depth = Len(eps.c.stk)]
    /\ UNCHANGED nonEpsVars

DoSetLineWidth ==
    /\ CanvasReady
    /\ \E w \in {0, 1} : Called("SetLineWidth", SetLineWidth(eps.c, w))

DoSetLineDash ==
    /\ CanvasReady
    /\ \E dashes \in {<<>>, <<2>>}, o \in {0, 1} :
           Called("SetLineDash", SetLineDash(eps.c, dashes, o))

DoSetColor ==
    /\ CanvasReady
    /\ \E c \in {"nil", "Red"} : Called("SetColor", SetColor(eps.c, c))

DoFillString ==
    /\ CanvasReady
    /\ \E name \in {"Times-Roman"} : Called("FillString", FillString(eps.c, name, 12))

DoCanvasPush ==
    /\ CanvasReady
    /\ eps' = [eps EXCEPT !.c = CanvasPush(eps.c), !.last = "Push",
                          !.depth = Len(eps.c.stk),
                          !.pushes = @ + 1,
                          !.seen = IF eps.c.stk = <<>> THEN @
                                   ELSE Append(@, eps.c.stk[Len(eps.c.stk)])]
    /\ UNCHANGED nonEpsVars

DoCanvasPop ==
    /\ CanvasReady
    /\ eps' = [eps EXCEPT !.c = CanvasPop(eps.c), !.last = "Pop",
                          !.depth = Len(eps.c.stk),
                          !.pops = @ + 1,
                          !.under = @ \/ eps.seen = <<>>,
                          !.seen = IF @ = <<>> THEN @ ELSE SubSeq(@, 1, Len(@) - 1),
                          !.restore = IF eps.seen = <<>> THEN ZeroCtx
                                      ELSE eps.seen[Len(eps.seen)]]
    /\ UNCHANGED nonEpsVars

DoDrawImage ==
    /\ CanvasReady
    /\ \E err \in BOOLEAN :
           eps' = [eps EXCEPT !.c = DrawImage(eps.c, err), !.last = "DrawImage",
                              !.depth = Len(eps.c.stk),
                              !.pushes = @ + 1, !.pops = @ + 1]
    /\ UNCHANGED nonEpsVars

\* Goroutine g of Draw is at the step pc.
At(g, pc) == IdleBut("html") /\ g \in DOMAIN html.pc /\ html.pc[g] = pc

\* Draw: vg.MakeFont(hdlr.Font, sty.Font.Size), and the panic on its error.
DoMakeFont ==
    \E g \in 1..MaxGo :
        /\ At(g, "call")
        /\ html' = [html EXCEPT !.pc[g] =
                        IF MakeFont(html.Font, html.args[g].size).err THEN "panicked"
                        ELSE "lock"]
        /\ UNCHANGED nonHtmlVars

\* Draw: hdlr.mu.Lock(); defer hdlr.mu.Unlock()
DoLock ==
    \E g \in 1..MaxGo :
        /\ At(g, "lock")
        /\ html.mu = Free
        /\ html' = [html EXCEPT !.mu = g, !.pc[g] = "set"]
        /\ UNCHANGED nonHtmlVars

\* Draw: the assignments to hdlr.state.
DoSetState ==
    \E g \in 1..MaxGo :
        /\ At(g, "set")
        /\ html' = [html EXCEPT
                        !.state = setState(@, html.args[g],
                                           MakeFont(html.Font, html.args[g].size).fnt),
                        !.pc[g] = "render"]
        /\ UNCHANGED nonHtmlVars

\* Draw: html.Parse and hdlr.draw(doc), and the panic on an error.
DoRender ==
    \E g \in 1..MaxGo :
        /\ At(g, "render")
        /\ LET r == draw([st |-> html.state, out |-> <<>>, err |-> FALSE],
                         html.args[g].txt)
           IN  html' = [html EXCEPT !.state = r.st, !.out[g] = r.out,
                                    !.pc[g] = IF r.err THEN "panic" ELSE "return"]
        /\ UNCHANGED nonHtmlVars

\* Draw returns.
DoReturn ==
    \E g \in 1..MaxGo :
        /\ At(g, "return")
        /\ html' = [html EXCEPT !.mu = exitReturn(@), !.pc[g] = "done"]
        /\ UNCHANGED nonHtmlVars

\* The panic leaves Draw.
DoPanic ==
    \E g \in 1..MaxGo :
        /\ At(g, "panic")
        /\ html' = [html EXCEPT !.mu = exitPanic(@), !.pc[g] = "panicked"]
        /\ UNCHANGED nonHtmlVars

NextHist == DoNewHistogram

NextHandler == DoMakeFont \/ DoLock \/ DoSetState \/ DoRender \/ DoReturn \/ DoPanic

NextCanvas ==
    DoSetLineWidth \/ DoSetLineDash \/ DoSetColor \/ DoFillString \/ DoCanvasPush
    \/ DoCanvasPop \/ DoDrawImage

NextAxis == DoSanitizeRange

NextRule == DoNewRule \/ DoNewHRule \/ DoNewVRule

Next ==
    NextSize \/ NextPack \/ NextRule \/ NextUnknown \/ NextSym \/ NextAst \/ NextLex \/ NextPar
    \/ NextHist \/ NextAxis \/ NextCanvas \/ NextHandler

\* Shrink and Grow on one node.
SpecSize == InitSize /\ [][NextSize]_vars

\* The list constructors and the packing routines.
SpecPack == InitPack /\ [][NextPack]_vars

\* Lists with a child that has no packing rule.
SpecUnknown == InitPack /\ [][NextUnknown]_vars

\* The symbol lookup.
SpecSym == InitSym /\ [][NextSym]_vars

\* The syntax trees.
SpecAst == InitAst /\ [][NextAst]_vars

\* The scanner on one source text.
SpecLex == InitLex /\ [][NextLex]_vars

\* The parser on one source text.
SpecPar == InitPar /\ [][NextPar]_vars

\* The constructors of the rules.
SpecRule == InitRule /\ [][NextRule]_vars

\* NewHistogram.
SpecHist == InitHist /\ [][NextHist]_vars

\* The range of an axis.
SpecAxis == InitAxis /\ [][NextAxis]_vars

\* The EPS canvas.
SpecCanvas == InitCanvas /\ [][NextCanvas]_vars

\* Draw calls on one HTMLHandler.
SpecHandler == InitHandler /\ [][NextHandler]_vars

Spec == Init /\ [][Next]_vars

----------------------------------------------------------------------------
(* Size levels: Shrink and Grow (checked under SpecSize).                  *)

\* The dimensions a node of the given kind has.
DimFields(kind) ==
    CASE kind = "VBox"               -> {"height", "depth"}
      [] kind \in {"HBox", "Glue", "Kern"} -> {"width"}
      [] kind \in {"Char", "Accent"} -> {"width", "height", "depth", "font"}
      [] kind \in ListKinds          -> {"width", "height", "depth", "shift", "set"}
      [] OTHER                       -> {"width", "height", "depth"}

\* n and m have the same dimensions.
SameDims(n, m) == \A f \in DimFields(n.kind) : n[f] = m[f]

\* Every dimension of m is the one of n with j more factors of 0.7.
ScaledBy(n, m, j) ==
    \A f \in DimFields(n.kind) : m[f] = [n[f] EXCEPT !.k = @ + j]

\* C1: for every node kind and at every size level that Shrink and Grow
\* calls reach, Shrink() followed by Grow() returns, and leaves the node's
\* width, height and depth (font size, shift, glue set) as they were before
\* the Shrink.
C1_ShrinkGrowRestores ==
    /\ since \in {"S", "SG"} => panic = "none"
    /\ since = "SG" => SameDims(node, before)

\* C2: shrinking saturates: of the Shrink calls of one run of consecutive
\* Shrink calls, at most NUM_SIZE_LEVELS reduce the node's dimensions.
C2_ShrinkSaturates == run <= NUM_SIZE_LEVELS

\* C3: after any sequence of Shrink and Grow calls that returned, the size
\* counter is the initial size plus the Grow calls minus the Shrink calls,
\* each call changing it by exactly one; and every Grow call scales every
\* dimension by GROW_FACTOR, whatever the size level.
C3_SizeCounts ==
    panic = "none" =>
        /\ node.size = size0 + nGrow - nShrink
        /\ call.op = "Shrink" => node.size = prev.size - 1
        /\ call.op = "Grow" => node.size = prev.size + 1 /\ ScaledBy(prev, node, -1)

\* A Grow call above NUM_SIZE_LEVELS, after Shrink and Grow calls.
C3_Witness ==
    /\ panic = "none"
    /\ call.op = "Grow"
    /\ prev.size > NUM_SIZE_LEVELS
    /\ nShrink > 0
    /\ nGrow > 1

----------------------------------------------------------------------------
(* Packing (checked under SpecPack).  The quantities the statements speak  *)
(* of are defined here on the children alone, apart from hpack and vpack.  *)

RECURSIVE SumTo(_, _)
\* f[1] + ... + f[n]
SumTo(f, n) == IF n = 0 THEN 0 ELSE SumTo(f, n - 1) + f[n]

SumSeq(f) == SumTo(f, Len(f))

\* The largest of 0 and the elements of f.
MaxSeq0(f) ==
    LET S == {0} \cup {f[i] : i \in 1..Len(f)} IN
    CHOOSE m \in S : \A x \in S : m >= x

\* A child with a running height or depth.
Running(n) == IsInf(Val(n.height)) \/ IsInf(Val(n.depth))

\* What a child adds to the width of a horizontal list.
WidthIn(n) == IF n.kind = "VBox" THEN 0 ELSE Val(n.width)

\* The height and the depth a child has in a horizontal list.
HeightIn(n) ==
    IF n.kind \in {"HBox", "Glue", "Kern"} \/ Running(n) THEN 0
    ELSE IF n.kind \in ListKinds THEN Val(n.height) - Val(n.shift)
    ELSE Val(n.height)

DepthIn(n) ==
    IF n.kind \in {"HBox", "Glue", "Kern"} \/ Running(n) THEN 0
    ELSE IF n.kind \in ListKinds THEN Val(n.depth) + Val(n.shift)
    ELSE Val(n.depth)

NaturalWidth(cs) == SumSeq([i \in 1..Len(cs) |-> WidthIn(cs[i])])

\* The total stretch, and the total shrink, of the glue of order o.
TotalStretch(cs, o) ==
    SumSeq([i \in 1..Len(cs) |->
              IF cs[i].kind = "Glue" /\ cs[i].stretchOrder = o THEN cs[i].stretch ELSE 0])

TotalShrink(cs, o) ==
    SumSeq([i \in 1..Len(cs) |->
              IF cs[i].kind = "Glue" /\ cs[i].shrinkOrder = o THEN cs[i].shrink ELSE 0])

\* The highest order whose total (a function on Orders) is not zero.
HighestOrder(tot) ==
    LET S == {o \in Orders : tot[o] # 0} IN
    IF S = {} THEN 0 ELSE CHOOSE o \in S : \A q \in S : o >= q

StretchTotals(cs) == [o \in Orders |-> TotalStretch(cs, o)]
ShrinkTotals(cs) == [o \in Orders |-> TotalShrink(cs, o)]

NoStretchNoShrink(cs) ==
    \A o \in Orders : TotalStretch(cs, o) = 0 /\ TotalShrink(cs, o) = 0

RECURSIVE Baseline(_, _)
\* The height up to the last baseline, and the depth below it, of the
\* first i children of a vertical list.
Baseline(cs, i) ==
    IF i = 0 THEN [h |-> 0, d |-> 0]
    ELSE LET p == Baseline(cs, i - 1)
             c == cs[i]
         IN  IF c.kind \in {"Glue", "Kern"}
             THEN [h |-> p.h + p.d + Val(c.width), d |-> 0]
             ELSE IF c.kind = "HBox"
             THEN [h |-> p.h + p.d, d |-> 0]
             ELSE [h |-> p.h + p.d + Val(c.height), d |-> Val(c.depth)]

\* The natural height of a vertical list whose depth is limited to l.
NaturalHeight(cs, l) ==
    LET b == Baseline(cs, Len(cs)) IN
    IF b.d > l THEN b.h + (b.d - l) ELSE b.h

\* The size the last hpack or vpack call asked for, and its excess over
\* the natural size.
FinalWidth ==
    IF call.additional THEN call.size + NaturalWidth(node.children) ELSE call.size

HExcess == FinalWidth - NaturalWidth(node.children)

FinalHeight ==
    IF call.additional THEN call.size + NaturalHeight(node.children, call.l)
    ELSE call.size

VExcess == FinalHeight - NaturalHeight(node.children, call.l)

Neutral == panic = "none" /\ node.sign = 0 /\ node.order = 0 /\ node.ratio = 0

\* The glue is set with the given sign from the totals tot for the excess x.
GlueSet(sign, tot, x) ==
    /\ panic = "none"
    /\ node.sign = sign
    /\ node.order = HighestOrder(tot)
    /\ node.ratio * tot[HighestOrder(tot)] = x

\* C4: when hpack's final width exceeds the natural width, the glue sign is
\* stretching, the glue order the highest order with a non-zero total
\* stretch, and the ratio the excess divided by that total; symmetrically on
\* the shrink totals when the final width is below the natural width.
C4_GlueSetting ==
    call.op = "hpack" =>
        /\ (HExcess > 0 /\ ~(\A o \in Orders : TotalStretch(node.children, o) = 0))
              => GlueSet(1, StretchTotals(node.children), HExcess)
        /\ (HExcess < 0 /\ ~(\A o \in Orders : TotalShrink(node.children, o) = 0))
              => GlueSet(-1, ShrinkTotals(node.children), HExcess)

\* The glue of a and b differs at most in the amount of a stretch of order
\* below 3.
SameButLowStretch(a, b) ==
    \/ a = b
    \/ /\ a.kind = "Glue" /\ b.kind = "Glue"
       /\ a.stretchOrder = b.stretchOrder /\ a.stretchOrder < 3
       /\ [a EXCEPT !.stretch = 0] = [b EXCEPT !.stretch = 0]

\* The lists that differ from cs only in the amounts of low-order stretch.
LowStretchVariants(cs) ==
    {q \in ElemSeqs :
        /\ Len(q) = Len(cs)
        /\ \A i \in 1..Len(cs) : SameButLowStretch(cs[i], q[i])}

\* C5: order dominance: a list with some stretch of order 3, packed to more
\* than its natural width, gets glue order 3, and the same order and ratio
\* as every list that differs from it only in the amounts of its stretch of
\* orders 0, 1 and 2, packed to the same size.
C5_OrderDominance ==
    (call.op = "hpack" /\ HExcess > 0 /\ TotalStretch(node.children, 3) # 0) =>
        /\ panic = "none"
        /\ node.order = 3
        /\ \A q \in LowStretchVariants(node.children) :
              LET r == hpack([node EXCEPT !.children = q], call.size, call.additional)
              IN  Returned(r) /\ r.n.order = node.order /\ r.n.ratio = node.ratio

\* C6: on a list whose children carry no stretch and no shrink,
\* hpack(targetWidth, additional = false) returns with the list's width
\* equal to targetWidth, whatever the natural width.
C6_ExactTargetWidth ==
    (call.op = "hpack" /\ ~call.additional /\ NoStretchNoShrink(node.children)) =>
        panic = "none" /\ Val(node.width) = call.size

\* C7: packing never fails: hpack and vpack, called with any target size on
\* a list of node kinds they support, return without a panic.
C7_PackingNeverFails ==
    call.op \in {"hpack", "vpack"} => panic = "none"

\* C8: when the final size equals the natural size, hpack and vpack leave
\* the glue sign, order and ratio at 0 and set no glue; every list that
\* HListOf or VListOf builds has neutral glue, and a list of no children
\* packs to width = height = depth = 0 with neutral glue.
C8_NeutralGlue ==
    /\ (call.op = "hpack" /\ HExcess = 0) => Neutral
    /\ (call.op = "vpack" /\ VExcess = 0) => Neutral
    /\ call.op \in {"HListOf", "VListOf"} =>
          /\ panic # "FIXME"
          /\ panic = "none" => Neutral
          /\ elements = <<>> =>
                /\ Neutral
                /\ Val(node.width) = 0 /\ Val(node.height) = 0 /\ Val(node.depth) = 0

\* hpack returned from a call on a list of several children, glue with
\* stretch among them, that asked for exactly their natural width.
C8_Witness ==
    /\ call.op = "hpack" /\ ~call.additional /\ call.size # 0
    /\ HExcess = 0 /\ Len(node.children) > 1 /\ panic = "none"
    /\ ~NoStretchNoShrink(node.children)

\* C9: HListOf(children, doKern = false) yields width = the sum of the
\* children's widths (none for a VBox), height = the largest of 0 and the
\* children's heights, depth = the largest of 0 and their depths; a child
\* with a running height or depth adds its width and is left out of both;
\* a nested list counts with height - shift and depth + shift.
C9_HListOfDims ==
    (call.op = "HListOf" /\ ~call.doKern) =>
        /\ panic = "none"
        /\ node.children = elements
        /\ Val(node.width) = NaturalWidth(elements)
        /\ Val(node.height) = MaxSeq0([i \in 1..Len(elements) |-> HeightIn(elements[i])])
        /\ Val(node.depth) = MaxSeq0([i \in 1..Len(elements) |-> DepthIn(elements[i])])

\* HListOf built a list of a child with a running height and a shifted
\* nested list.
C9_Witness ==
    /\ call.op = "HListOf" /\ ~call.doKern /\ panic = "none"
    /\ \E i \in 1..Len(elements) : Running(elements[i]) /\ Val(elements[i].width) # 0
    /\ \E i \in 1..Len(elements) :
          elements[i].kind \in ListKinds /\ Val(elements[i].shift) # 0

\* The children of a vertical list that have a height: not Char and Accent,
\* whose vpackDims panics.
Stackable(cs) == \A i \in 1..Len(cs) : cs[i].kind \notin {"Char", "Accent"}

\* The heights and depths, and the glue and kern widths, of the children.
ExtentIn(n) ==
    IF n.kind \in {"Glue", "Kern"} THEN Val(n.width)
    ELSE IF n.kind = "HBox" THEN 0
    ELSE Val(n.height) + Val(n.depth)

\* C10: vpack accumulates baseline to baseline: VListOf(children) yields
\* width = the largest of 0 and the children's widths, depth = the depth of
\* the last child (0 after a Glue, a Kern or an HBox), and height = the sum
\* of each child's height plus the depth of the child before it, a Glue and
\* a Kern adding their width; so height + depth is the sum of all heights,
\* depths and glue and kern widths.
C10_VListOfDims ==
    (call.op = "VListOf" /\ Stackable(elements)) =>
        LET n    == Len(elements)
            last == elements[n]
        IN  /\ panic = "none"
            /\ node.children = elements
            /\ Val(node.width) =
                 MaxSeq0([i \in 1..n |->
                            IF IsInf(Val(elements[i].width)) \/ elements[i].kind \in {"VBox", "Glue", "Kern"}
                            THEN 0 ELSE Val(elements[i].width)])
            /\ Val(node.depth) =
                 (IF n = 0 \/ last.kind \in {"Glue", "Kern", "HBox"} THEN 0
                  ELSE Val(last.depth))
            /\ Val(node.height) = Baseline(elements, n).h
            /\ Val(node.height) + Val(node.depth) =
                 SumSeq([i \in 1..n |-> ExtentIn(elements[i])])

\* VListOf built a list of a child with a depth followed by a Glue or Kern
\* of non-zero width.
C10_Witness ==
    /\ call.op = "VListOf" /\ panic = "none" /\ Len(elements) = 2
    /\ Val(elements[1].depth) > 0
    /\ elements[2].kind \in {"Glue", "Kern"} /\ Val(elements[2].width) # 0

----------------------------------------------------------------------------
(* The depth limit of vpack.                                               *)

\* The height and the depth the children of the list accumulate, before
\* the depth limit applies.
Accumulated == Baseline(node.children, Len(node.children))

\* C11: in vpack(height, additional, maxDepth), when the depth accumulated
\* from the children exceeds maxDepth, the excess is added to the natural
\* height and the depth of the list is exactly maxDepth; otherwise the depth
\* of the list is the accumulated depth.  The natural height (the height of
\* the list less the requested one when additional, the one target that
\* needs no glue setting otherwise) plus the depth of the list is the
\* accumulated height plus the accumulated depth, whatever maxDepth.
C11_DepthLimit ==
    call.op = "vpack" =>
        LET b   == Accumulated
            nat == IF b.d > call.l THEN b.h + (b.d - call.l) ELSE b.h
        IN  /\ Val(node.depth) = (IF b.d > call.l THEN call.l ELSE b.d)
            /\ call.additional => Val(node.height) = call.size + nat
            /\ ~call.additional =>
                  /\ Val(node.height) = call.size
                  /\ (panic = "none") <=> (call.size = nat)
            /\ nat + Val(node.depth) = b.h + b.d

\* A vpack that returned, on children whose depth exceeds maxDepth.
C11_Witness ==
    /\ call.op = "vpack" /\ panic = "none" /\ call.additional
    /\ Accumulated.d > call.l
    /\ Val(node.depth) = call.l
    /\ Val(node.height) > Accumulated.h

----------------------------------------------------------------------------
(* Kern insertion.                                                         *)

RECURSIVE Spliced(_)
\* The elements with one Kern after each element whose kerning with the
\* next element is not 0.
Spliced(cs) ==
    IF Len(cs) <= 1 THEN cs
    ELSE LET dist == Kerning(cs[1], cs[2]).d IN
         (IF dist # 0 THEN <<cs[1], NewKern(dist)>> ELSE <<cs[1]>>) \o Spliced(Tail(cs))

\* C12: HListOf(elements, doKern = true) queries a.Kerning(b) for each pair
\* of adjacent elements and returns a list whose children are the elements
\* in their order, with one Kern of that width between a and b when it is
\* not 0 and none after the last element; the kerns are inserted before
\* hpack, so the packed width is the natural width of the resulting children.
C12_KernInsertion ==
    (call.op = "HListOf" /\ call.doKern) =>
        /\ panic = "none"
        /\ node.children = Spliced(elements)
        /\ Val(node.width) = NaturalWidth(node.children)

----------------------------------------------------------------------------
(* What packing writes.                                                    *)

\* The fields of a list that packing does not own.
Kept(n) == [kind |-> n.kind, size |-> n.size, font |-> n.font, shift |-> n.shift,
            children |-> n.children, set |-> n.set,
            stretch |-> n.stretch, stretchOrder |-> n.stretchOrder,
            shrink |-> n.shrink, shrinkOrder |-> n.shrinkOrder]

\* The elements between the two glues HCentered and VCentered add.
Centered(elems) == <<NewGlue("ss")>> \o elems \o <<NewGlue("ss")>>

\* C13: packing writes only the list's own width, height, depth and glue
\* sign, order and ratio.  hpack and vpack leave the children (their size
\* level, dimensions and glue specification, and their order) and every
\* other field of the list as they were; the children of a list built by
\* HListOf or VListOf are the caller's elements, unaltered and in order
\* (kerning only inserts new Kern nodes), between two new glues for
\* HCentered and VCentered; and the caller's elements stay as they are
\* through every later hpack or vpack.
C13_PackingFrame ==
    /\ call.op \in {"hpack", "vpack"} =>
          /\ Kept(node) = Kept(prev)
          /\ node.children \in {Spliced(elements), Centered(elements)}
    /\ call.op \in {"HListOf", "VListOf", "HCentered", "VCentered"} =>
          /\ Kept(node) =
                Kept([ListOf(node.children) EXCEPT
                        !.kind = IF call.op \in {"HListOf", "HCentered"}
                                 THEN "HList" ELSE "VList"])
          /\ call.op = "HListOf" /\ panic = "none" => node.children = Spliced(elements)
          /\ call.op = "HListOf" /\ panic # "none" => node.children = elements
          /\ call.op = "VListOf" => node.children = elements
          /\ call.op \in {"HCentered", "VCentered"} => node.children = Centered(elements)

\* A list of two different children was packed to a new size after its
\* construction.
C13_Witness ==
    /\ call.op \in {"hpack", "vpack"}
    /\ Len(elements) = 2 /\ elements[1] # elements[2]
    /\ elements[1].kind = "Glue"
    /\ Val(node.width) # Val(prev.width) \/ Val(node.height) # Val(prev.height)

----------------------------------------------------------------------------
(* Children without a packing rule.                                        *)

\* C14: a child that has no packing rule is fatal in both directions: hpack
\* on a list with a child that is no hpacker, and vpack on a list with a
\* child that is no vpacker, panic with "unknown node type" instead of
\* passing over the child.
C14_UnknownChildFatal ==
    (call.op \in {"HListOf", "VListOf", "hpack", "vpack"} /\ HasUnknown(node.children)) =>
        panic = "unknown node type"

----------------------------------------------------------------------------
(* Unknown symbols.                                                        *)

Letters == {102, 111, 116}

\* v is a backslash followed by a name of letters.
IsMacro(v) ==
    /\ Len(v) >= 2
    /\ v[1] = Backslash
    /\ \A i \in 2..Len(v) : v[i] \in Letters

\* The bytes of v occur in m, one after the other.
Contains(m, v) ==
    \E i \in 0..(Len(m) - Len(v)) : SubSeq(m, i + 1, i + Len(v)) = v

\* C15: in math mode, unicodeIndex fails for every backslash macro name that
\* has no entry in the table of TeX names (\foo): it returns no code point
\* and panics with an error whose message contains the text of the macro.
C15_UnknownSymbol ==
    (sym.pc = "done" /\ sym.math /\ IsMacro(sym.v) /\ Tail(sym.v) \notin DOMAIN tex2uni) =>
        /\ sym.r = -1
        /\ sym.err # NoErr
        /\ Contains(sym.err.arg, sym.v)

----------------------------------------------------------------------------
(* Positions of the syntax nodes.                                          *)

\* C16: every syntax node of every variant, built with its children in
\* source order and its closing delimiter not before the opening one, ends
\* at or after the offset it starts at: End() >= Pos(); a Macro whose last
\* argument, and a Super whose child, is an empty List included.
C16_EndNotBeforePos ==
    ast # NoAst => End(ast) >= Pos(ast)

\* C17: a List without children reports the sentinel -1, never 0, as its
\* Pos() and its End(); a List with children starts where its first child
\* starts and ends where its last child ends.
C17_ListPositions ==
    ast.type = "List" =>
        IF ast.list = <<>>
        THEN Pos(ast) = -1 /\ End(ast) = -1
        ELSE /\ Pos(ast) = Pos(ast.list[1])
             /\ End(ast) = End(ast.list[Len(ast.list)])

\* A List of a List without children and a node that follows it.
C17_Witness ==
    /\ ast.type = "List" /\ Len(ast.list) = 2
    /\ ast.list[1] = AstList(<<AstList(<<>>)>>)
    /\ Pos(ast) = -1
    /\ End(ast) > 0

----------------------------------------------------------------------------
(* The tokens of the scanner.                                              *)

\* The byte at offset i of the source, 0 past its end.
ByteAt(i) == IF i < Len(lex.src) THEN lex.src[i + 1] ELSE 0

\* The offset after the digits that start at offset i.
DigitsEnd(i) == RunEnd(lex.src, i, "digit")

\* The token that starts at offset i is of kind k.
TokenAt(i, k) == \E j \in 1..Len(lex.toks) : lex.toks[j].Pos = i /\ lex.toks[j].Kind = k

\* C18: the boundary of a Number token.  Digits, a '.' and more digits are
\* one Number (23.4); digits and a '.' that no digit and no letter follows
\* are one Number, with the '.' (42.); digits followed by '.' and a letter
\* make the Number of the digits alone, and the letter starts a Word of its
\* own (43.x); no Number token holds a letter.
C18_NumberBoundary ==
    \A j \in 1..Len(lex.toks) :
        LET t   == lex.toks[j]
            e   == DigitsEnd(t.Pos)
            end == t.Pos + Len(t.Text)
        IN  t.Kind = "Number" =>
              /\ \A i \in 1..Len(t.Text) : ~IsLetter(t.Text[i])
              /\ t.Text = SubSeq(lex.src, t.Pos + 1, end)
              /\ IF ByteAt(e) = 46 /\ IsDigit(ByteAt(e + 1))
                 THEN end = DigitsEnd(e + 1)
                 ELSE IF ByteAt(e) = 46 /\ ~IsLetter(ByteAt(e + 1))
                 THEN end = e + 1
                 ELSE /\ end = e
                      /\ (lex.pc = "eof" /\ ByteAt(e) = 46) => TokenAt(e + 1, "Word")
                      /\ (lex.pc = "eof" /\ IsLetter(ByteAt(e))) => TokenAt(e, "Word")

\* The scanner read 4.x to its end.
C18_Witness ==
    /\ lex.pc = "eof"
    /\ lex.src = <<52, 46, 120>>
    /\ Len(lex.toks) = 3
    /\ lex.toks[1] = Token("Number", 0, <<52>>)
    /\ lex.toks[3] = Token("Word", 2, <<120>>)

\* The kinds of package token.
Kinds ==
    {"Invalid", "Macro", "EmptyLine", "Comment", "Space", "Word", "Number", "Dollar",
     "Lbrace", "Rbrace", "Lbrack", "Rbrack", "Equal", "Underscore", "Lparen", "Rparen",
     "Lt", "Gt", "Hat", "Div", "Mul", "Sub", "Add", "Not", "Colon", "Backslash", "Other",
     "Verbatim", "EOF"}

\* The offset after the token t.
TokenEnd(t) == t.Pos + Len(t.Text)

\* The bytes that start no token rule of the scanner.
Unknown1(c) ==
    /\ ~IsLetter(c) /\ ~IsDigit(c) /\ ~IsSpace(c) /\ ~IsQuote(c)
    /\ c \notin DOMAIN Structural
    /\ c \notin {37, 92}

\* C19: the scanner never fails and always terminates.  Every call of
\* Next() before the end of the source yields one token of a kind of the
\* package; the tokens come in the order of the source, each starting where
\* the one before it ends and none empty, so that no byte is passed over and
\* none is read twice; a byte that starts no token rule is an Other token;
\* and Next() returns false after at most one call for each byte and one for
\* the end, all the source being read by then.
C19_ScannerTerminates ==
    lex.pc # "idle" =>
        LET n == Len(lex.toks) IN
        /\ lex.calls <= Len(lex.src) + 1
        /\ n = (IF lex.pc = "eof" THEN lex.calls - 1 ELSE lex.calls)
        /\ \A j \in 1..n :
              /\ lex.toks[j].Kind \in Kinds
              /\ lex.toks[j].Text # <<>>
              /\ lex.toks[j].Text = SubSeq(lex.src, lex.toks[j].Pos + 1, TokenEnd(lex.toks[j]))
              /\ lex.toks[j].Pos = (IF j = 1 THEN 0 ELSE TokenEnd(lex.toks[j - 1]))
              /\ Unknown1(lex.toks[j].Text[1]) =>
                    lex.toks[j].Kind = "Other" /\ Len(lex.toks[j].Text) = 1
        /\ lex.off = (IF n = 0 THEN 0 ELSE TokenEnd(lex.toks[n]))
        /\ lex.pc = "eof" <=> (lex.calls > 0 /\ lex.calls = n + 1 /\ lex.off = Len(lex.src))

\* Next() returned false after one call for each byte and one more, a byte
\* that starts no token rule and a quote without its match among the bytes.
C19_Witness ==
    /\ lex.pc = "eof"
    /\ Len(lex.src) = 3
    /\ lex.calls = Len(lex.src) + 1
    /\ TokenAt(1, "Other")
    /\ TokenAt(2, "Invalid")

----------------------------------------------------------------------------
(* The balance of braces and brackets.                                     *)

\* The delimiters among the tokens of the parser, in their order.
Delims == SelectSeq(par.toks, LAMBDA t : t.Kind \in {"Lbrace", "Lbrack", "Rbrace", "Rbrack"})

IsOpener(t) == t.Kind \in {"Lbrace", "Lbrack"}

Pairs(o, c) ==
    \/ o.Kind = "Lbrace" /\ c.Kind = "Rbrace"
    \/ o.Kind = "Lbrack" /\ c.Kind = "Rbrack"

RECURSIVE Balanced(_)
\* Every delimiter of q has its match in q, the pairs being nested.
Balanced(q) ==
    \/ q = <<>>
    \/ \E k \in 2..Len(q) :
          /\ Pairs(q[1], q[k])
          /\ Balanced(SubSeq(q, 2, k - 1))
          /\ Balanced(SubSeq(q, k + 1, Len(q)))

\* The opening delimiter at index i of Delims has no matching closer.
Unmatched(i) ==
    /\ IsOpener(Delims[i])
    /\ ~\E k \in (i + 1)..Len(Delims) :
          Pairs(Delims[i], Delims[k]) /\ Balanced(SubSeq(Delims, i + 1, k - 1))

\* A closing delimiter comes while no delimiter is open.
StrayCloser ==
    \E k \in 1..Len(Delims) : ~IsOpener(Delims[k]) /\ Balanced(SubSeq(Delims, 1, k - 1))

----------------------------------------------------------------------------
(* The default number of bins of a histogram (checked under SpecHist).     *)

\* The default number of bins of a data set: the least whole number whose
\* square is at least the sum of max(y, 1) over the points, and at least 1.
DefaultBins(xy) ==
    LET m == Mass(xy, Len(xy))
        c == CHOOSE r \in 0..m : r * r >= m /\ \A q \in 0..m : q * q >= m => r <= q
    IN  IF c < 1 THEN 1 ELSE c

\* C21: NewHistogram with a non-positive number of bins does not fail: it
\* returns a histogram with the default number of bins and a nil error.
C21_DefaultBins ==
    (hist.pc = "done" /\ hist.n <= 0) =>
        /\ hist.err = NoHistErr
        /\ ~hist.h.nil
        /\ Len(hist.h.Bins) = DefaultBins(hist.xy)

----------------------------------------------------------------------------
(* Shrink and Grow on lists (checked under SpecSize).                      *)

RECURSIVE SizesMoved(_, _, _)
\* Every node of the tree m has the size counter of its counterpart in the
\* tree n plus d.
SizesMoved(n, m, d) ==
    /\ m.size = n.size + d
    /\ Len(m.children) = Len(n.children)
    /\ \A i \in DOMAIN n.children : SizesMoved(n.children[i], m.children[i], d)

\* The factors of 0.7 the last call put on the field f of the node.
Factors(f) == node[f].k - prev[f].k

\* C22: a Shrink or Grow call on a list that returns has moved the size
\* counter of every descendant, and of the list, by exactly one; it has
\* scaled the list's shift and glue set exactly as it scaled the width,
\* height and depth of the list's own box; and the list's own box is scaled
\* after the children: a call that a child ended has left it untouched.
C22_ListResize ==
    (call.op \in {"Shrink", "Grow"} /\ node.kind \in ListKinds) =>
        /\ panic = "none" =>
               /\ SizesMoved(prev, node, IF call.op = "Shrink" THEN -1 ELSE 1)
               /\ \A f \in {"height", "depth", "shift", "set"} :
                      Factors(f) = Factors("width")
               /\ Factors("width") \in {-1, 0, 1}
        /\ panic # "none" =>
               /\ node.size = prev.size
               /\ SameDims(prev, node)

\* A Shrink call on a list with children at a size level where the list's
\* own box is not scaled.
C22_Witness ==
    /\ call.op = "Shrink"
    /\ panic = "none"
    /\ node.kind \in ListKinds
    /\ node.children # <<>>
    /\ node.size >= NUM_SIZE_LEVELS
    /\ Factors("width") = 0

----------------------------------------------------------------------------
(* The dimensions of the rules (checked under SpecRule).                   *)

\* C23: the constructors of the rules return a rule with the dimensions
\* asked for: NewRule(w, h, d) the width w, the height h and the depth d;
\* NewHRule a running width and half the thickness as height and as depth;
\* NewVRule a running height and depth.  No other dimension is infinite.
C23_RuleDims ==
    /\ call.op \in {"NewRule", "NewHRule", "NewVRule"} => panic = "none"
    /\ call.op = "NewRule" =>
           /\ node.kind = "Rule"
           /\ Val(node.width) = call.w
           /\ Val(node.height) = call.h
           /\ Val(node.depth) = call.d
    /\ call.op = "NewHRule" =>
           /\ node.kind = "HRule"
           /\ Val(node.width) = Inf
           /\ call.thickness >= 0 =>
                  /\ 2 * Val(node.height) = call.thickness
                  /\ 2 * Val(node.depth) = call.thickness
    /\ call.op = "NewVRule" =>
           /\ node.kind = "VRule"
           /\ Val(node.height) = Inf
           /\ Val(node.depth) = Inf
    /\ node.kind \notin RuleKinds =>
           \A f \in {"width", "height", "depth"} : ~IsInf(Val(node[f]))

----------------------------------------------------------------------------
(* The code point of a symbol (checked under SpecSym).                     *)

\* v is the encoding of one character.
OneRune(v) == v # <<>> /\ DecodeRune(v).r # RuneError /\ DecodeRune(v).w = Len(v)

\* C24: in math mode unicodeIndex returns U+2212 for "-", the character
\* itself for any other single valid character, and the entry of the table
\* of TeX names for a backslash macro whose name is a key of the table;
\* outside math mode it returns the first rune of its input, and "-" stays
\* U+002D.
C24_SymbolIndex ==
    sym.pc = "done" =>
        /\ (sym.math /\ sym.v = <<Minus>>) => (sym.r = 8722 /\ sym.err = NoErr)
        /\ (sym.math /\ OneRune(sym.v) /\ sym.v # <<Minus>>) =>
               (sym.r = DecodeRune(sym.v).r /\ sym.err = NoErr)
        /\ (sym.math /\ IsMacro(sym.v) /\ Tail(sym.v) \in DOMAIN tex2uni) =>
               (sym.r = tex2uni[Tail(sym.v)] /\ sym.err = NoErr)
        /\ (~sym.math /\ sym.v # <<>> /\ DecodeRune(sym.v).r # RuneError) =>
               (sym.r = DecodeRune(sym.v).r /\ sym.err = NoErr)
        /\ (~sym.math /\ sym.v = <<Minus>>) => sym.r = Minus

----------------------------------------------------------------------------
(* Centred lists (checked under SpecPack).                                 *)

\* The glue the centred lists put around their elements.
SS == [ZeroNode EXCEPT !.kind = "Glue", !.stretch = 1, !.stretchOrder = 1,
                       !.shrink = -1, !.shrinkOrder = 1]

\* C25: HCentered(elements) returns whenever HListOf(elements, false) does;
\* it is an HList of an 'ss' glue (width 0, stretch 1 and shrink -1 of order
\* 1), the elements in order and a second 'ss' glue, with the width, height
\* and depth of HListOf(elements, false).  VCentered(elements) is a VList
\* of the same children whose height plus depth is that of
\* VListOf(elements), all of it in the height: its depth is 0.
C25_Centered ==
    /\ call.op = "HCentered" =>
           LET plain == HListOf(elements, FALSE) IN
           /\ Returned(plain) => panic = "none"
           /\ panic = "none" =>
                  /\ node.kind = "HList"
                  /\ node.children = <<SS>> \o elements \o <<SS>>
                  /\ Returned(plain)
                  /\ Val(node.width) = Val(plain.n.width)
                  /\ Val(node.height) = Val(plain.n.height)
                  /\ Val(node.depth) = Val(plain.n.depth)
    /\ call.op = "VCentered" =>
           LET plain == VListOf(elements) IN
           /\ Returned(plain) => panic = "none"
           /\ panic = "none" =>
                  /\ node.kind = "VList"
                  /\ node.children = <<SS>> \o elements \o <<SS>>
                  /\ Returned(plain)
                  /\ Val(node.height) + Val(node.depth)
                         = Val(plain.n.height) + Val(plain.n.depth)
                  /\ Val(node.depth) = 0

\* VCentered on elements whose plain VList has a depth, which the centred
\* list moves into its height.
C25_Witness ==
    /\ call.op = "VCentered"
    /\ panic = "none"
    /\ Len(elements) = 2
    /\ Val(VListOf(elements).n.depth) > 0
    /\ Val(node.height) > Val(VListOf(elements).n.height)

----------------------------------------------------------------------------
(* The range of an axis (checked under SpecAxis).                          *)

Finite(x) == ~IsInf(x)

\* C26: after sanitizeRange, whatever the bounds were (the defaults +Inf
\* and -Inf and Min > Max included), Min and Max are finite and Min < Max;
\* a range that was finite with Min < Max is as it was; and a second call
\* changes nothing.
C26_SaneRange ==
    axis.calls >= 1 =>
        /\ Finite(axis.Min) /\ Finite(axis.Max)
        /\ axis.Min < axis.Max
        /\ (Finite(axis.last.Min) /\ Finite(axis.last.Max) /\ axis.last.Min < axis.last.Max)
               => (axis.Min = axis.last.Min /\ axis.Max = axis.last.Max)
        /\ axis.calls >= 2 => (axis.Min = axis.last.Min /\ axis.Max = axis.last.Max)

----------------------------------------------------------------------------
(* Packed lists under Shrink and Grow (checked under SpecSize).            *)

\* The box of the list is the one hpack(0, true) computes from the
\* children as they are now.
Repacked(lst) ==
    LET r == hpack(lst, 0, TRUE) IN
    /\ Returned(r)
    /\ Val(r.n.width) = Val(lst.width)
    /\ Val(r.n.height) = Val(lst.height)
    /\ Val(r.n.depth) = Val(lst.depth)

\* C27: after any sequence of Shrink and Grow calls on an HList built by
\* HListOf, whatever the kinds and the size levels of its children, the
\* width of the list is the sum of the widths of its children and its
\* height and depth are the maxima of theirs: hpack(0, true) would leave
\* the box of the list as it is.
C27_PackedAfterResize ==
    (node.kind = "HList" /\ panic = "none") => Repacked(node)

----------------------------------------------------------------------------
(* The context stack of the EPS canvas (checked under SpecCanvas).         *)

\* The lines x among the first n lines of the output.
CountIn(buf, n, x) == Cardinality({i \in 1..n : buf[i] = x})

\* C28: as long as no Pop found the stack without a pushed context, the
\* stack holds 1 + pushes - pops contexts, at least 1; after a Pop the top
\* context is, field by field, the one that was on top before the matching
\* Push; the output has one gsave per Push and one grestore per Pop, no
\* grestore without its gsave before it; and DrawImage leaves the depth of
\* the stack as it was, also when the encoding fails.
C28_ContextStack ==
    (eps.last # "none" /\ ~eps.under) =>
        /\ Len(eps.c.stk) = 1 + eps.pushes - eps.pops
        /\ Len(eps.c.stk) >= 1
        /\ eps.last = "Pop" => eps.c.stk[Len(eps.c.stk)] = eps.restore
        /\ CountIn(eps.c.buf, Len(eps.c.buf), "gsave") = eps.pushes
        /\ CountIn(eps.c.buf, Len(eps.c.buf), "grestore") = eps.pops
        /\ \A n \in 0..Len(eps.c.buf) :
               CountIn(eps.c.buf, n, "grestore") <= CountIn(eps.c.buf, n, "gsave")
        /\ eps.last = "DrawImage" => Len(eps.c.stk) = eps.depth
        /\ eps.c.p # "none" => eps.last = "DrawImage"

\* A Pop brings back the colour that was set before the Push, after the
\* colour was changed in between.
C28_Witness ==
    /\ eps.last = "Pop"
    /\ ~eps.under
    /\ eps.restore.color = "Red"
    /\ eps.c.stk[Len(eps.c.stk)].color = "Red"
    /\ \E i \in DOMAIN eps.c.buf, j \in DOMAIN eps.c.buf :
           i < j /\ eps.c.buf[i] = "gsave" /\ eps.c.buf[j] = "setrgbcolor"

----------------------------------------------------------------------------
(* Draw calls on one HTMLHandler (checked under SpecHandler).              *)

\* The steps of Draw between Lock and the deferred Unlock.
Locked == {"set", "render", "return", "panic"}

\* C29: concurrent Draw calls on one handler exclude each other: a call
\* that reads or writes the render state holds the mutex, so no two calls
\* do at once; a call that has left Draw, by a return or by a panic, does
\* not hold the mutex; and a call that waits for the mutex waits for a call
\* that is still running, so that it is never stuck.
C29_DrawExclusive ==
    html.pc # <<>> =>
        /\ \A g \in DOMAIN html.pc : html.pc[g] \in Locked => html.mu = g
        /\ \A g \in DOMAIN html.pc : html.pc[g] \notin Locked => html.mu # g
        /\ \A g \in DOMAIN html.pc, h \in DOMAIN html.pc :
               (html.pc[g] \in Locked /\ html.pc[h] \in Locked) => g = h
        /\ (\E g \in DOMAIN html.pc : html.pc[g] = "lock") =>
               \/ html.mu = Free
               \/ html.mu \in DOMAIN html.pc /\ html.pc[html.mu] \in Locked

\* A call renders under the mutex after another call panicked under it.
C29_Witness ==
    /\ html.pc # <<>>
    /\ html.Font = "Helvetica"
    /\ html.pc[1] = "panicked"
    /\ html.pc[2] = "render"
    /\ html.mu = 2

\* What Draw emits on a handler that has drawn nothing before.
FreshDraw(a) ==
    draw([st |-> setState(ZeroState, a, MakeFont(HTML.Font, a.size).fnt),
          out |-> <<>>, err |-> FALSE], a.txt).out

\* C30: what a Draw call emits (the fonts, the points and the texts) does
\* not depend on the Draw calls made before it on the same handler: it is
\* what the call emits on a new handler.
C30_DrawHistoryFree ==
    html.pc # <<>> =>
        \A g \in DOMAIN html.pc :
            html.pc[g] \in {"return", "done"} => html.out[g] = FreshDraw(html.args[g])

====
